---- MODULE Spec2Model ----
(***************************************************************************)
(* Model of the quantum IR runtime (QuantumRuntime/IR): the circuit DAG    *)
(* engine (circuit.rs), the job scheduler (job.rs) and the runtime         *)
(* coordinator (runtime.rs).                                               *)
(*                                                                         *)
(* Node ids are 0-based as in the source; TLA+ sequences are 1-based, so   *)
(* node id i lives at nodes[i + 1].                                        *)
(***************************************************************************)
EXTENDS Integers, Sequences, FiniteSets, TLC

\* ------------------------------------------------------------------------
\* Bounds of the model
\* ------------------------------------------------------------------------
MaxNodes == 3
MaxEdges == 3
MaxDeps == 2
MaxJobs == 2
MaxConcurrent == 1
NumQubits == 2
MaxQueued == 3
MaxLogical == 3
MaxFreeList == 3
NumPhysical == 2
MaxClock == 3
NumThreads == 2
MaxSubmits == 3
MaxShots == 3
MaxCountValue == 2
MaxOps == 4

\* ------------------------------------------------------------------------
\* Program constants
\* ------------------------------------------------------------------------
\* enum Priority
Low == 0
Normal == 1
High == 2
Urgent == 3
\* the first id MockBackendAdapter::new hands out
MockFirstJobId == 1000
\* execution_time_ms the mock adapters report
MockExecutionTimeMs == 1

\* Option::None for the numeric options of the model
None == -1

\* usize::MAX, the filler of CircuitDagBuilder.last_ops, as the largest
\* integer the checker holds; it is only compared with node counts
usize_MAX == 2147483647

VARIABLES
    nodes,          \* CircuitDag.nodes : sequence of OperationNode
    edges,          \* CircuitDag.edges : sequence of <<from, to>>
    cached_depth,   \* CircuitDag.cached_depth : None or a depth
    dag_op,         \* name of the last CircuitDag call
    dag_ret,        \* what the last CircuitDag call returned
    dag_args,       \* the indices the last CircuitDag call was given
    scheduler,      \* JobScheduler: queue, running, completed,
                    \*   available_qubits, max_concurrent_jobs, stats
    job_counter,    \* the process-wide COUNTER of Job::generate_id
    registry,       \* BackendRegistry.backends: the registered names
    backend_next,   \* next_job_id of the adapter registered under each name
    rt_stats,       \* QuantumRuntime.stats
    op,             \* name of the last scheduler / runtime call
    ret_job,        \* the Job the last call returned (NoJob for none)
    ret_result,     \* the JobResult the last call returned (NoResult for none)
    ret_ok,         \* the bool the last call returned
    ret_results,    \* the Vec<JobResult> the last call returned
    backend_ret,    \* what BackendAdapter::execute handed back in the ticks
                    \*   of the last call, in order
    call_job,       \* id of the job the last call was about (0 for none)
    cancelled,      \* ids for which cancel has returned true
    dispatched,     \* jobs handed out by schedule_next on which neither
                    \*   complete nor a successful cancel was called yet
    ea_ticks,       \* the schedule_and_execute calls the last call made, if
                    \*   it was execute_all (0 otherwise)
    jq_jobs,        \* JobQueue.jobs of a queue used on its own
    jq_op,          \* name of the last JobQueue call
    jq_ret,         \* the Job the last JobQueue call returned (NoJob for none)
    next_id,        \* LogicalQubitManager.next_id
    allocated,      \* LogicalQubitManager.allocated : id -> LogicalQubit
    free_list,      \* LogicalQubitManager.free_list
    qm_op,          \* name of the last LogicalQubitManager call
    qm_arg,         \* the id the last LogicalQubitManager call was given
    qm_ret,         \* the id or bool the last LogicalQubitManager call returned
    issued,         \* ids allocate / allocate_ancilla returned since the last reset
    logical_to_physical,    \* QubitMapping.logical_to_physical
    physical_to_logical,    \* QubitMapping.physical_to_logical
    qmap_op,        \* the last QubitMapping call: name and arguments
    now,            \* the clock current_timestamp() reads
    tjob,           \* one Job followed through its life, with its timestamps
    tjob_at,        \* where that Job is: "caller", "queue" or "dropped"
    tjob_op,        \* name of the last call that touched that Job
    ad_jobs,        \* MockBackendAdapter.jobs : id -> MockJobState
    ad_next_job_id, \* MockBackendAdapter.next_job_id
    ad_pc,          \* where each thread is inside submit_job, and the id it holds
    ad_returned,    \* the ids submit_job has returned, in order of return
    ad_last,        \* the last adapter call that completed, with its outcome
    res_counts,     \* JobResult.counts : qubit -> Vec<u8>
    res_statistics, \* JobResult.statistics : qubit -> P(1), a fraction <<n, d>>
    res_op,         \* the last JobResult call: name and qubit
    node_qubits,    \* OperationNode.qubits of the operation each node id is
                    \*   created from, as a set
    last_ops        \* CircuitDagBuilder.last_ops

dagVars == <<nodes, edges, cached_depth, dag_op, dag_ret, dag_args>>

schedVars == <<scheduler, job_counter, registry, backend_next, rt_stats,
               op, ret_job, ret_result, ret_ok, ret_results, backend_ret,
               call_job, cancelled, dispatched, ea_ticks>>

queueVars == <<jq_jobs, jq_op, jq_ret>>

qubitVars == <<next_id, allocated, free_list, qm_op, qm_arg, qm_ret, issued>>

mappingVars == <<logical_to_physical, physical_to_logical, qmap_op>>

timedJobVars == <<now, tjob, tjob_at, tjob_op>>

adapterVars == <<ad_jobs, ad_next_job_id, ad_pc, ad_returned, ad_last>>

\* the components added after the job life cycle
resultVars == <<res_counts, res_statistics, res_op>>

builderVars == <<node_qubits, last_ops>>

extraVars == <<adapterVars, resultVars, builderVars>>

\* the components that are used on their own
compVars == <<queueVars, qubitVars, mappingVars, timedJobVars, extraVars>>

vars == <<nodes, edges, cached_depth, dag_op, dag_ret, dag_args,
          scheduler, job_counter, registry, backend_next, rt_stats,
          op, ret_job, ret_result, ret_ok, ret_results, backend_ret,
          call_job, cancelled, dispatched, ea_ticks,
          jq_jobs, jq_op, jq_ret,
          next_id, allocated, free_list, qm_op, qm_arg, qm_ret, issued,
          logical_to_physical, physical_to_logical, qmap_op,
          now, tjob, tjob_at, tjob_op,
          ad_jobs, ad_next_job_id, ad_pc, ad_returned, ad_last,
          res_counts, res_statistics, res_op,
          node_qubits, last_ops>>

\* ------------------------------------------------------------------------
\* Helpers
\* ------------------------------------------------------------------------
SeqsUpTo(S, n) == UNION {[1..k -> S] : k \in 0..n}

Range(s) == {s[i] : i \in 1..Len(s)}

MaxOf(S, dflt) == IF S = {} THEN dflt ELSE CHOOSE m \in S : \A x \in S : x <= m

\* the value a CircuitDag call hands back: an error kind ("none" for Ok),
\* a number (node id, depth), a node order, the layers of
\* compute_parallel_groups and the bool of can_parallel
DagRet(err, num, order) ==
    [err |-> err, num |-> num, order |-> order, groups |-> <<>>,
     ok |-> FALSE]

\* ------------------------------------------------------------------------
\* CircuitDag
\* ------------------------------------------------------------------------
OperationNode(id) == [id |-> id, depends_on |-> <<>>, parallel_with |-> <<>>]

with_dependencies(node, node_ids) == [node EXCEPT !.depends_on = node_ids]

RECURSIVE has_path(_, _, _, _), has_path_scan(_, _, _, _, _)

\* DFS over the outgoing edges of `start`; the visited set is shared by the
\* whole search, so the operator returns it with the answer
has_path(E, start, end, visited) ==
    IF start = end THEN [found |-> TRUE, visited |-> visited]
    ELSE IF start \in visited THEN [found |-> FALSE, visited |-> visited]
    ELSE has_path_scan(E, 1, start, end, visited \cup {start})

\* the `for &(from, to) in &self.edges` loop of has_path, from position i
has_path_scan(E, i, start, end, visited) ==
    IF i > Len(E) THEN [found |-> FALSE, visited |-> visited]
    ELSE IF E[i][1] = start
         THEN LET r == has_path(E, E[i][2], end, visited)
              IN  IF r.found THEN r
                  ELSE has_path_scan(E, i + 1, start, end, r.visited)
         ELSE has_path_scan(E, i + 1, start, end, visited)

\* a cycle check that looks at self-loops and direct back edges only
would_create_cycle_direct(E, from, to) ==
    from = to \/ <<to, from>> \in Range(E)

\* a cycle check that searches from `from` to `to`, the wrong way round
would_create_cycle_forward(E, from, to) == has_path(E, from, to, {}).found

would_create_cycle(E, from, to) == has_path(E, to, from, {}).found

\* in_degree after the `for &(from, to) in &self.edges` counting loop
in_degree_of(N, E) ==
    [n \in 0..(N - 1) |-> Cardinality({i \in 1..Len(E) : E[i][2] = n})]

\* the initial work list: ids of in-degree 0, ascending
RECURSIVE initial_queue(_, _, _)
initial_queue(deg, n, N) ==
    IF n >= N THEN <<>>
    ELSE (IF deg[n] = 0 THEN <<n>> ELSE <<>>) \o initial_queue(deg, n + 1, N)

\* a relaxation that queues a successor as soon as one of its predecessors
\* is emitted, whatever in-degree it still has
RECURSIVE kahn_relax_eager(_, _, _, _)
kahn_relax_eager(E, i, node, st) ==
    IF i > Len(E) THEN st
    ELSE IF E[i][1] = node
         THEN LET to == E[i][2]
                  deg2 == [st.deg EXCEPT ![to] = st.deg[to] - 1]
              IN  kahn_relax_eager(E, i + 1, node,
                                   [deg |-> deg2, queue |-> Append(st.queue, to)])
         ELSE kahn_relax_eager(E, i + 1, node, st)

\* the `for &(from, to) in &self.edges` loop of Kahn's algorithm for `node`:
\* st = [deg, queue]
RECURSIVE kahn_relax(_, _, _, _)
kahn_relax(E, i, node, st) ==
    IF i > Len(E) THEN st
    ELSE IF E[i][1] = node
         THEN LET to == E[i][2]
                  d == st.deg[to] - 1
                  deg2 == [st.deg EXCEPT ![to] = d]
                  q2 == IF d = 0 THEN Append(st.queue, to) ELSE st.queue
              IN  kahn_relax(E, i + 1, node, [deg |-> deg2, queue |-> q2])
         ELSE kahn_relax(E, i + 1, node, st)

\* the `while let Some(node) = queue.pop()` loop: Vec::pop takes the LAST
\* element
RECURSIVE kahn_loop(_, _, _, _)
kahn_loop(E, st, visited, result) ==
    IF st.queue = <<>> THEN result
    ELSE LET node == st.queue[Len(st.queue)]
             rest == [st EXCEPT !.queue = SubSeq(st.queue, 1, Len(st.queue) - 1)]
         IN  IF node \in visited
             THEN kahn_loop(E, rest, visited, result)
             ELSE kahn_loop(E, kahn_relax(E, 1, node, rest),
                            visited \cup {node}, Append(result, node))

topological_sort(N, E) ==
    LET deg == in_degree_of(N, E)
    IN  kahn_loop(E, [deg |-> deg, queue |-> initial_queue(deg, 0, N)], {}, <<>>)

\* a depth programme that looks at the first predecessor only
RECURSIVE depth_fill_first(_, _, _, _)
depth_fill_first(Ns, order, k, depths) ==
    IF k > Len(order) THEN depths
    ELSE LET node_id == order[k]
             preds == Ns[node_id + 1].depends_on
             d == IF Len(preds) = 0 THEN 0 ELSE depths[preds[1]]
         IN  depth_fill_first(Ns, order, k + 1, [depths EXCEPT ![node_id] = d + 1])

\* the dynamic programme of depth(): depths[] filled along `order`
RECURSIVE depth_fill(_, _, _, _)
depth_fill(Ns, order, k, depths) ==
    IF k > Len(order) THEN depths
    ELSE LET node_id == order[k]
             preds == Ns[node_id + 1].depends_on
             max_pred_depth == MaxOf({depths[preds[j]] : j \in 1..Len(preds)}, 0)
         IN  depth_fill(Ns, order, k + 1,
                        [depths EXCEPT ![node_id] = max_pred_depth + 1])

\* depth() past the cache: the value it computes and stores
compute_depth(Ns, E) ==
    IF Len(Ns) = 0 THEN 0
    ELSE LET order == topological_sort(Len(Ns), E)
             depths == depth_fill(Ns, order, 1, [n \in 0..(Len(Ns) - 1) |-> 0])
         IN  MaxOf({depths[n] : n \in 0..(Len(Ns) - 1)}, 0)

\* the layering loop of compute_parallel_groups: node_level[] and groups
\* filled along `order`
RECURSIVE level_fill(_, _, _, _, _)
level_fill(Ns, order, k, node_level, groups) ==
    IF k > Len(order) THEN groups
    ELSE LET node_id == order[k]
             preds == Ns[node_id + 1].depends_on
             level == MaxOf({node_level[preds[j]] : j \in 1..Len(preds)}, 0)
             grown == IF Len(groups) <= level
                      THEN groups \o [i \in 1..(level + 1 - Len(groups)) |-> <<>>]
                      ELSE groups
         IN  level_fill(Ns, order, k + 1,
                        [node_level EXCEPT ![node_id] = level],
                        [grown EXCEPT ![level + 1] = Append(@, node_id)])

\* a layering that starts at the second node of the order
compute_groups_skip_first(Ns, E) ==
    level_fill(Ns, topological_sort(Len(Ns), E), 2,
               [n \in 0..(Len(Ns) - 1) |-> 0], <<>>)

\* the groups compute_parallel_groups builds and returns
compute_groups(Ns, E) ==
    level_fill(Ns, topological_sort(Len(Ns), E), 1,
               [n \in 0..(Len(Ns) - 1) |-> 0], <<>>)

\* the second loop of compute_parallel_groups: every node of a group gets
\* the rest of its group as parallel_with
set_parallel_with(Ns, groups) ==
    [i \in 1..Len(Ns) |->
        LET hits == {g \in 1..Len(groups) : (i - 1) \in Range(groups[g])}
        IN  IF hits = {} THEN Ns[i]
            ELSE LET g == CHOOSE h \in hits : \A x \in hits : x <= h
                 IN  [Ns[i] EXCEPT !.parallel_with =
                         SelectSeq(groups[g], LAMBDA id : id # i - 1)]]

\* Operation::qubits as a set: no qubit (an empty Barrier) up to all of them
Footprints == SUBSET (0..(NumQubits - 1))

\* the node ids a DAG of the model can hold
NodeSlots == 0..(MaxOps - 1)

depends_on_node(node, other_id) == other_id \in Range(node.depends_on)

\* a can_parallel that asks only the first node for the second
can_parallel_one_way(Ns, Q, node1, node2) ==
    IF node1 >= Len(Ns) \/ node2 >= Len(Ns) THEN FALSE
    ELSE IF depends_on_node(Ns[node1 + 1], node2) THEN FALSE
    ELSE Q[node1] \cap Q[node2] = {}

\* can_parallel(node1, node2) over the nodes Ns with the footprints Q
can_parallel(Ns, Q, node1, node2) ==
    IF node1 >= Len(Ns) \/ node2 >= Len(Ns) THEN FALSE
    ELSE IF \/ depends_on_node(Ns[node1 + 1], node2)
            \/ depends_on_node(Ns[node2 + 1], node1)
    THEN FALSE
    ELSE Q[node1] \cap Q[node2] = {}

\* ---- operations -----------------------------------------------------------

add_node ==
    /\ Len(nodes) < MaxNodes
    /\ LET id == Len(nodes)
       IN  /\ nodes' = Append(nodes, OperationNode(id))
           /\ cached_depth' = None
           /\ dag_op' = "add_node"
           /\ dag_args' = <<>>
           /\ dag_ret' = DagRet("none", id, <<>>)
    /\ UNCHANGED <<edges, schedVars, compVars>>

\* an add_node_with_deps that pushes the node first and checks each
\* dependency only as it adds its edge
add_node_with_deps_late_check ==
    \E deps \in SeqsUpTo(0..Len(nodes), MaxDeps) :
        /\ Len(nodes) < MaxNodes
        /\ Len(edges) + Len(deps) <= MaxEdges
        /\ dag_op' = "add_node_with_deps"
        /\ dag_args' = deps
        /\ UNCHANGED <<schedVars, compVars>>
        /\ LET id == Len(nodes)
               bad == {j \in 1..Len(deps) : deps[j] >= Len(nodes)}
               upto == IF bad = {} THEN Len(deps)
                       ELSE (CHOOSE j \in bad : \A k \in bad : j <= k) - 1
           IN  /\ nodes' = Append(nodes, with_dependencies(OperationNode(id), deps))
               /\ edges' = edges \o [j \in 1..upto |-> <<deps[j], id>>]
               /\ cached_depth' = IF bad = {} THEN None ELSE cached_depth
               /\ dag_ret' = IF bad = {} THEN DagRet("none", id, <<>>)
                             ELSE DagRet("QubitNotFound", None, <<>>)

add_node_with_deps ==
    \E deps \in SeqsUpTo(0..Len(nodes), MaxDeps) :
        /\ Len(nodes) < MaxNodes
        /\ Len(edges) + Len(deps) <= MaxEdges
        /\ dag_op' = "add_node_with_deps"
        /\ dag_args' = deps
        /\ UNCHANGED <<schedVars, compVars>>
        /\ IF \E j \in 1..Len(deps) : deps[j] >= Len(nodes)
           THEN /\ dag_ret' = DagRet("QubitNotFound", None, <<>>)
                /\ UNCHANGED <<nodes, edges, cached_depth>>
           ELSE LET id == Len(nodes)
                IN  /\ nodes' = Append(nodes, with_dependencies(OperationNode(id), deps))
                    /\ edges' = edges \o [j \in 1..Len(deps) |-> <<deps[j], id>>]
                    /\ cached_depth' = None
                    /\ dag_ret' = DagRet("none", id, <<>>)

\* an add_edge that records the edge and leaves the target's depends_on alone
add_edge_edges_only ==
    \E from \in 0..Len(nodes), to \in 0..Len(nodes) :
        /\ Len(edges) < MaxEdges
        /\ dag_op' = "add_edge"
        /\ dag_args' = <<from, to>>
        /\ UNCHANGED <<schedVars, compVars>>
        /\ IF from >= Len(nodes) \/ to >= Len(nodes)
           THEN /\ dag_ret' = DagRet("QubitNotFound", None, <<>>)
                /\ UNCHANGED <<nodes, edges, cached_depth>>
           ELSE IF would_create_cycle(edges, from, to)
           THEN /\ dag_ret' = DagRet("CyclicDependency", None, <<>>)
                /\ UNCHANGED <<nodes, edges, cached_depth>>
           ELSE /\ edges' = Append(edges, <<from, to>>)
                /\ cached_depth' = None
                /\ dag_ret' = DagRet("none", None, <<>>)
                /\ UNCHANGED nodes

add_edge ==
    \E from \in 0..Len(nodes), to \in 0..Len(nodes) :
        /\ Len(edges) < MaxEdges
        /\ dag_op' = "add_edge"
        /\ dag_args' = <<from, to>>
        /\ UNCHANGED <<schedVars, compVars>>
        /\ IF from >= Len(nodes) \/ to >= Len(nodes)
           THEN /\ dag_ret' = DagRet("QubitNotFound", None, <<>>)
                /\ UNCHANGED <<nodes, edges, cached_depth>>
           ELSE IF would_create_cycle(edges, from, to)
           THEN /\ dag_ret' = DagRet("CyclicDependency", None, <<>>)
                /\ UNCHANGED <<nodes, edges, cached_depth>>
           ELSE /\ edges' = Append(edges, <<from, to>>)
                /\ nodes' = [nodes EXCEPT ![to + 1].depends_on = Append(@, from)]
                /\ cached_depth' = None
                /\ dag_ret' = DagRet("none", None, <<>>)

depth ==
    /\ dag_op' = "depth"
    /\ dag_args' = <<>>
    /\ IF cached_depth # None
       THEN /\ dag_ret' = DagRet("none", cached_depth, <<>>)
            /\ UNCHANGED cached_depth
       ELSE LET d == compute_depth(nodes, edges)
            IN  /\ cached_depth' = d
                /\ dag_ret' = DagRet("none", d, <<>>)
    /\ UNCHANGED <<nodes, edges, schedVars, compVars>>

topological_sort_call ==
    /\ dag_op' = "topological_sort"
    /\ dag_args' = <<>>
    /\ dag_ret' = DagRet("none", None, topological_sort(Len(nodes), edges))
    /\ UNCHANGED <<nodes, edges, cached_depth, schedVars, compVars>>

\* get_node_mut(id): the cache is cleared before the lookup; the caller may
\* use the reference to give a node without dependencies one on an earlier
\* node
get_node_mut ==
    \E id \in 0..Len(nodes), push \in {None} \cup 0..(Len(nodes) - 1) :
        /\ push < id
        /\ dag_op' = "get_node_mut"
        /\ dag_args' = <<id>>
        /\ cached_depth' = None
        /\ IF id >= Len(nodes)
           THEN /\ push = None
                /\ dag_ret' = DagRet("none", None, <<>>)
                /\ UNCHANGED nodes
           ELSE /\ dag_ret' = DagRet("none", id, <<>>)
                /\ IF push = None THEN UNCHANGED nodes
                   ELSE /\ nodes[id + 1].depends_on = <<>>
                        /\ nodes' = [nodes EXCEPT
                                        ![id + 1].depends_on = Append(@, push)]
        /\ UNCHANGED <<edges, schedVars, compVars>>

compute_parallel_groups ==
    /\ dag_op' = "compute_parallel_groups"
    /\ dag_args' = <<>>
    /\ LET groups == compute_groups(nodes, edges)
       IN  /\ nodes' = set_parallel_with(nodes, groups)
           /\ cached_depth' = Len(groups)
           /\ dag_ret' = [DagRet("none", None, <<>>) EXCEPT !.groups = groups]
    /\ UNCHANGED <<edges, schedVars, compVars>>

clear ==
    /\ dag_op' = "clear"
    /\ dag_args' = <<>>
    /\ nodes' = <<>>
    /\ edges' = <<>>
    /\ cached_depth' = None
    /\ dag_ret' = DagRet("none", None, <<>>)
    /\ UNCHANGED <<schedVars, compVars>>

can_parallel_call ==
    \E node1 \in 0..Len(nodes), node2 \in 0..Len(nodes) :
        /\ dag_op' = "can_parallel"
        /\ dag_args' = <<node1, node2>>
        /\ dag_ret' = [DagRet("none", None, <<>>) EXCEPT
                          !.ok = can_parallel(nodes, node_qubits, node1, node2)]
        /\ UNCHANGED <<nodes, edges, cached_depth, schedVars, compVars>>

CircuitDag_new ==
    /\ nodes = <<>>
    /\ edges = <<>>
    /\ cached_depth = None
    /\ dag_op = "new"
    /\ dag_ret = DagRet("none", None, <<>>)
    /\ dag_args = <<>>

NextDag ==
    \/ add_node
    \/ add_node_with_deps
    \/ add_edge
    \/ depth
    \/ topological_sort_call

\* every operation of the CircuitDag that writes or reads the depth cache
NextDagFull ==
    \/ add_node
    \/ add_node_with_deps
    \/ add_edge
    \/ depth
    \/ topological_sort_call
    \/ get_node_mut
    \/ compute_parallel_groups
    \/ clear

\* ------------------------------------------------------------------------
\* Job, JobResult (job.rs)
\* ------------------------------------------------------------------------
QubitIds == 0..(NumQubits - 1)

Priorities == {Low, Normal, High, Urgent}

\* the priorities of the jobs handed to a QuantumRuntime
RuntimePriorities == {Normal, Urgent}

\* the names backends are registered under and jobs are targeted at
DefaultBackend == "default"
BackendNames == {DefaultBackend, "Bell State"}

\* CircuitMetadata.name of the circuits handed to create_job
NoName == ""
CircuitNames == {NoName, "Bell State"}

\* the qubit footprints of the submitted circuits: none, one qubit, all
JobFootprints == {{}} \cup {{q} : q \in QubitIds} \cup {QubitIds}

\* depends_on lists of the submitted jobs: none or one job id
DepChoices == {<<>>} \cup {<<d>> : d \in 1..MaxJobs}

is_terminal(status) == status \in {"Completed", "Failed", "Cancelled"}

Job_new(id, qubits, target_backend) ==
    [id |-> id, priority |-> Normal, target_backend |-> target_backend,
     status |-> "Pending", depends_on |-> <<>>, allocated_qubits |-> qubits]

with_priority(job, priority) == [job EXCEPT !.priority = priority]

with_dependency(job, job_id) == [job EXCEPT !.depends_on = Append(@, job_id)]

\* the status part of Job::set_status; the submitted_at / started_at /
\* completed_at stamps it also writes are not part of the job record here
set_status(job, status) == [job EXCEPT !.status = status]

\* Job::cancel: the job afterwards and the bool it returns
Job_cancel(job) ==
    IF is_terminal(job.status) THEN [job |-> job, ok |-> FALSE]
    ELSE [job |-> set_status(job, "Cancelled"), ok |-> TRUE]

\* Option<Job>::None
NoJob == Job_new(0, {}, "")

JobResult_success(job_id) ==
    [job_id |-> job_id, status |-> "Completed", execution_time_ms |-> None,
     error |-> ""]

JobResult_failure(job_id, error) ==
    [job_id |-> job_id, status |-> "Failed", execution_time_ms |-> None,
     error |-> error]

\* Option<JobResult>::None
NoResult == [job_id |-> 0, status |-> "none", execution_time_ms |-> None,
             error |-> ""]

\* ------------------------------------------------------------------------
\* JobQueue (job.rs)
\* ------------------------------------------------------------------------
InsertAt(s, pos, x) == SubSeq(s, 1, pos - 1) \o <<x>> \o SubSeq(s, pos, Len(s))

RemoveAt(s, pos) == SubSeq(s, 1, pos - 1) \o SubSeq(s, pos + 1, Len(s))

\* position of the first job with the id, 0 when there is none
position_of(jobs, id) ==
    LET hits == {i \in 1..Len(jobs) : jobs[i].id = id}
    IN  IF hits = {} THEN 0 ELSE CHOOSE i \in hits : \A k \in hits : i <= k

\* a push that inserts before the first job of lower or equal priority
push_before_equal(jobs, job) ==
    LET lower == {i \in 1..Len(jobs) : jobs[i].priority <= job.priority}
        pos == IF lower = {} THEN Len(jobs) + 1
               ELSE CHOOSE i \in lower : \A k \in lower : i <= k
    IN  InsertAt(jobs, pos, job)

push(jobs, job) ==
    LET lower == {i \in 1..Len(jobs) : jobs[i].priority < job.priority}
        pos == IF lower = {} THEN Len(jobs) + 1
               ELSE CHOOSE i \in lower : \A k \in lower : i <= k
    IN  InsertAt(jobs, pos, job)

\* ------------------------------------------------------------------------
\* JobScheduler (job.rs)
\* ------------------------------------------------------------------------
JobScheduler_new(max_concurrent_jobs) ==
    [queue |-> <<>>, running |-> {}, completed |-> <<>>,
     available_qubits |-> {}, max_concurrent_jobs |-> max_concurrent_jobs,
     stats |-> [total_submitted |-> 0, total_completed |-> 0,
                total_failed |-> 0, total_cancelled |-> 0,
                current_queue_depth |-> 0]]

with_qubits(S, qubits) == [S EXCEPT !.available_qubits = qubits]

submit(S, job) ==
    LET q == push(S.queue, set_status(job, "Queued"))
    IN  [S EXCEPT !.queue = q,
                  !.stats.total_submitted = @ + 1,
                  !.stats.current_queue_depth = Len(q)]

\* can_schedule without the resource check
can_schedule_deps_only(S, job) ==
    \A k \in 1..Len(job.depends_on) : job.depends_on[k] \in DOMAIN S.completed

\* can_schedule without the dependency check
can_schedule_qubits_only(S, job) ==
    job.allocated_qubits \subseteq S.available_qubits

can_schedule(S, job) ==
    /\ \A k \in 1..Len(job.depends_on) : job.depends_on[k] \in DOMAIN S.completed
    /\ \A q \in job.allocated_qubits : q \in S.available_qubits

\* the queue positions of the schedulable jobs, in queue order
RECURSIVE candidates(_, _)
candidates(S, i) ==
    IF i > Len(S.queue) THEN <<>>
    ELSE (IF can_schedule(S, S.queue[i]) THEN <<i>> ELSE <<>>)
         \o candidates(S, i + 1)

\* a selection that keeps the candidate of the lowest priority
RECURSIVE min_by_key(_, _, _, _)
min_by_key(jobs, cands, k, best) ==
    IF k > Len(cands) THEN best
    ELSE min_by_key(jobs, cands, k + 1,
                    IF jobs[cands[k]].priority < jobs[best].priority
                    THEN cands[k] ELSE best)

\* Iterator::max_by_key from position k on: of several maximal elements the
\* LAST one is kept
RECURSIVE max_by_key(_, _, _, _)
max_by_key(jobs, cands, k, best) ==
    IF k > Len(cands) THEN best
    ELSE max_by_key(jobs, cands, k + 1,
                    IF jobs[cands[k]].priority >= jobs[best].priority
                    THEN cands[k] ELSE best)

\* schedule_next: the scheduler afterwards and the job returned
schedule_next(S) ==
    IF Cardinality(S.running) >= S.max_concurrent_jobs
    THEN [s |-> S, job |-> NoJob]
    ELSE LET cands == candidates(S, 1)
         IN  IF cands = <<>> THEN [s |-> S, job |-> NoJob]
             ELSE LET best_idx == max_by_key(S.queue, cands, 2, cands[1])
                      job == set_status(S.queue[best_idx], "Ready")
                      q == RemoveAt(S.queue, best_idx)
                  IN  [s |-> [S EXCEPT
                                !.queue = q,
                                !.available_qubits = @ \ job.allocated_qubits,
                                !.stats.current_queue_depth = Len(q)],
                       job |-> job]

\* start_execution: the scheduler afterwards and the job returned
start_execution(S, job_id) ==
    LET pos == position_of(S.queue, job_id)
    IN  IF pos # 0
        THEN [s |-> [S EXCEPT !.queue[pos] = set_status(@, "Running")],
              job |-> NoJob]
        ELSE IF \E j \in S.running : j.id = job_id
        THEN LET j == CHOOSE x \in S.running : x.id = job_id
                 r == set_status(j, "Running")
             IN  [s |-> [S EXCEPT !.running = (@ \ {j}) \cup {r}], job |-> r]
        ELSE [s |-> S, job |-> NoJob]

complete(S, job_id, result) ==
    IF \E j \in S.running : j.id = job_id
    THEN LET job == CHOOSE x \in S.running : x.id = job_id
         IN  [S EXCEPT
                !.running = @ \ {job},
                !.available_qubits = @ \cup job.allocated_qubits,
                !.stats.total_completed =
                    IF result.status = "Completed" THEN @ + 1 ELSE @,
                !.stats.total_failed =
                    IF result.status = "Completed" THEN @ ELSE @ + 1,
                !.completed = [i \in (DOMAIN @) \cup {job_id} |->
                                  IF i = job_id THEN result ELSE @[i]]]
    ELSE S

\* a cancel that marks the queued job Cancelled where it stands, without
\* taking it out of the queue
cancel_in_place(S, job_id) ==
    LET pos == position_of(S.queue, job_id)
    IN  IF pos # 0
        THEN [s |-> [S EXCEPT !.queue[pos] = Job_cancel(@).job,
                              !.stats.total_cancelled = @ + 1],
              ok |-> TRUE]
        ELSE [s |-> S, ok |-> FALSE]

\* cancel: the scheduler afterwards and the bool returned; the job taken out
\* of the queue or of `running` is cancelled (Job::cancel) and dropped
cancel(S, job_id) ==
    LET pos == position_of(S.queue, job_id)
    IN  IF pos # 0
        THEN LET q == RemoveAt(S.queue, pos)
             IN  [s |-> [S EXCEPT !.queue = q,
                                  !.stats.total_cancelled = @ + 1],
                  ok |-> TRUE]
        ELSE IF \E j \in S.running : j.id = job_id
        THEN LET job == CHOOSE x \in S.running : x.id = job_id
             IN  [s |-> [S EXCEPT
                           !.running = @ \ {job},
                           !.stats.total_cancelled = @ + 1,
                           !.available_qubits = @ \cup job.allocated_qubits],
                  ok |-> TRUE]
        ELSE [s |-> S, ok |-> FALSE]

\* get_status: "none" for Option::None
get_status(S, job_id) ==
    LET pos == position_of(S.queue, job_id)
    IN  IF pos # 0 THEN S.queue[pos].status
        ELSE IF \E j \in S.running : j.id = job_id
        THEN (CHOOSE x \in S.running : x.id = job_id).status
        ELSE IF job_id \in DOMAIN S.completed THEN S.completed[job_id].status
        ELSE "none"

get_result(S, job_id) ==
    IF job_id \in DOMAIN S.completed THEN S.completed[job_id] ELSE NoResult

queue_length(S) == Len(S.queue)

\* ---- the calls of a client of one JobScheduler ----------------------------

\* a job built with Job::new(..).with_priority(..)[.with_dependency(..)]
NewJobs(target_backends, priorities) ==
    {[Job_new(job_counter, fp, tb) EXCEPT !.priority = p, !.depends_on = deps] :
        fp \in JobFootprints, tb \in target_backends,
        p \in priorities, deps \in DepChoices}

Sched_submit ==
    /\ job_counter <= MaxJobs
    /\ \E job \in NewJobs({DefaultBackend}, Priorities) :
          /\ scheduler' = submit(scheduler, job)
          /\ call_job' = job.id
    /\ job_counter' = job_counter + 1
    /\ op' = "submit"
    /\ ret_results' = <<>>
    /\ ea_ticks' = 0
    /\ backend_ret' = <<>>
    /\ ret_job' = NoJob
    /\ ret_result' = NoResult
    /\ ret_ok' = FALSE
    /\ UNCHANGED <<dagVars, compVars, cancelled, registry, backend_next, rt_stats, dispatched>>

Sched_schedule_next ==
    /\ LET r == schedule_next(scheduler)
       IN  /\ scheduler' = r.s
           /\ ret_job' = r.job
           /\ call_job' = r.job.id
           /\ dispatched' = IF r.job = NoJob THEN dispatched
                            ELSE dispatched \cup {r.job}
    /\ op' = "schedule_next"
    /\ ret_results' = <<>>
    /\ ea_ticks' = 0
    /\ backend_ret' = <<>>
    /\ ret_result' = NoResult
    /\ ret_ok' = FALSE
    /\ UNCHANGED <<dagVars, compVars, cancelled, job_counter, registry, backend_next, rt_stats>>

Sched_start_execution ==
    /\ \E job_id \in 1..MaxJobs :
          LET r == start_execution(scheduler, job_id)
          IN  /\ scheduler' = r.s
              /\ ret_job' = r.job
              /\ call_job' = job_id
    /\ op' = "start_execution"
    /\ ret_results' = <<>>
    /\ ea_ticks' = 0
    /\ backend_ret' = <<>>
    /\ ret_result' = NoResult
    /\ ret_ok' = FALSE
    /\ UNCHANGED <<dagVars, compVars, cancelled, job_counter, registry, backend_next, rt_stats,
                   dispatched>>

Sched_complete ==
    /\ \E job_id \in 1..MaxJobs, ok \in BOOLEAN :
          LET result == IF ok THEN JobResult_success(job_id)
                        ELSE JobResult_failure(job_id, "error")
          IN  /\ scheduler' = complete(scheduler, job_id, result)
              /\ dispatched' = {j \in dispatched : j.id # job_id}
              /\ call_job' = job_id
    /\ op' = "complete"
    /\ ret_results' = <<>>
    /\ ea_ticks' = 0
    /\ backend_ret' = <<>>
    /\ ret_job' = NoJob
    /\ ret_result' = NoResult
    /\ ret_ok' = FALSE
    /\ UNCHANGED <<dagVars, compVars, cancelled, job_counter, registry, backend_next, rt_stats>>

Sched_cancel ==
    /\ \E job_id \in 1..MaxJobs :
          LET r == cancel(scheduler, job_id)
          IN  /\ scheduler' = r.s
              /\ ret_ok' = r.ok
              /\ dispatched' = IF r.ok THEN {j \in dispatched : j.id # job_id}
                               ELSE dispatched
              /\ cancelled' = IF r.ok THEN cancelled \cup {job_id} ELSE cancelled
              /\ call_job' = job_id
    /\ op' = "cancel"
    /\ ret_results' = <<>>
    /\ ea_ticks' = 0
    /\ backend_ret' = <<>>
    /\ ret_job' = NoJob
    /\ ret_result' = NoResult
    /\ UNCHANGED <<dagVars, compVars, job_counter, registry, backend_next, rt_stats>>

\* ------------------------------------------------------------------------
\* QuantumRuntime (runtime.rs)
\* ------------------------------------------------------------------------
RuntimeStats_default ==
    [total_jobs_submitted |-> 0, total_jobs_completed |-> 0,
     total_jobs_failed |-> 0, total_execution_time_ms |-> 0]

\* what BackendAdapter::execute can hand back: Ok with a Completed result,
\* Ok with a Failed result, or Err
BackendOutcomes == {"Completed", "Failed", "Err"}

\* the JobResult an adapter builds in submit_job: it carries the id the
\* adapter minted
backend_result(backend_job_id, status) ==
    [JobResult_success(backend_job_id) EXCEPT
        !.status = status,
        !.execution_time_ms = MockExecutionTimeMs,
        !.error = IF status = "Completed" THEN "" ELSE "backend failure"]

\* the IrError a failing backend returns from execute
BackendError == [kind |-> "BackendUnavailable", msg |-> "offline"]

\* impl Display for IrError: the variant's prefix, then the message
IrError_to_string(e) ==
    (CASE e.kind = "QubitNotFound" -> "Qubit not found: "
       [] e.kind = "BackendUnavailable" -> "Backend unavailable: "
       [] e.kind = "JobExecutionFailed" -> "Job execution failed: "
       [] e.kind = "CyclicDependency" -> "Cyclic dependency detected: "
       [] OTHER -> "Operation timeout: ") \o e.msg

\* the target backend create_job picks for a circuit of that metadata name
create_job_target(circuit_name) ==
    IF circuit_name # NoName THEN circuit_name ELSE DefaultBackend

\* a tick that hands the backend's error on to its caller (`execute(..)?`)
\* instead of turning it into a result
schedule_and_execute_propagate(R, outcome) ==
    LET sn == schedule_next(R.scheduler)
        job == sn.job
    IN  IF job = NoJob
        THEN [r |-> R, result |-> NoResult, job |-> NoJob, executed |-> FALSE]
        ELSE IF job.target_backend \notin R.registry
        THEN [r |-> [R EXCEPT !.scheduler = sn.s], result |-> NoResult,
              job |-> job, executed |-> FALSE]
        ELSE IF outcome = "Err"
        THEN [r |-> [R EXCEPT !.scheduler = sn.s], result |-> NoResult,
              job |-> job, executed |-> TRUE]
        ELSE LET result == backend_result(R.backend_next[job.target_backend], outcome)
             IN  [r |-> [R EXCEPT
                           !.scheduler = complete(sn.s, job.id, result),
                           !.backend_next[job.target_backend] = @ + 1,
                           !.rt_stats.total_jobs_completed = @ + 1,
                           !.rt_stats.total_execution_time_ms =
                               @ + result.execution_time_ms],
                  result |-> result, job |-> job, executed |-> TRUE]

\* a tick that leaves the job in the queue when its target backend is not
\* registered
schedule_and_execute_requeue(R, outcome) ==
    LET sn == schedule_next(R.scheduler)
        job == sn.job
    IN  IF job = NoJob
        THEN [r |-> R, result |-> NoResult, job |-> NoJob, executed |-> FALSE]
        ELSE IF job.target_backend \notin R.registry
        THEN [r |-> R, result |-> NoResult, job |-> job, executed |-> FALSE]
        ELSE IF outcome = "Err"
        THEN LET result == JobResult_failure(job.id, IrError_to_string(BackendError))
             IN  [r |-> [R EXCEPT
                           !.scheduler = complete(sn.s, job.id, result),
                           !.rt_stats.total_jobs_failed = @ + 1],
                  result |-> result, job |-> job, executed |-> TRUE]
        ELSE LET result == backend_result(R.backend_next[job.target_backend], outcome)
             IN  [r |-> [R EXCEPT
                           !.scheduler = complete(sn.s, job.id, result),
                           !.backend_next[job.target_backend] = @ + 1,
                           !.rt_stats.total_jobs_completed = @ + 1,
                           !.rt_stats.total_execution_time_ms =
                               @ + result.execution_time_ms],
                  result |-> result, job |-> job, executed |-> TRUE]

\* a tick that leaves the job in the queue for another try when the backend
\* returns an error
schedule_and_execute_retry(R, outcome) ==
    LET sn == schedule_next(R.scheduler)
        job == sn.job
    IN  IF job = NoJob
        THEN [r |-> R, result |-> NoResult, job |-> NoJob, executed |-> FALSE]
        ELSE IF job.target_backend \notin R.registry
        THEN [r |-> [R EXCEPT !.scheduler = sn.s], result |-> NoResult,
              job |-> job, executed |-> FALSE]
        ELSE IF outcome = "Err"
        THEN LET result == JobResult_failure(job.id, IrError_to_string(BackendError))
             IN  [r |-> [R EXCEPT !.rt_stats.total_jobs_failed = @ + 1],
                  result |-> result, job |-> job, executed |-> TRUE]
        ELSE LET result == backend_result(R.backend_next[job.target_backend], outcome)
             IN  [r |-> [R EXCEPT
                           !.scheduler = complete(sn.s, job.id, result),
                           !.backend_next[job.target_backend] = @ + 1,
                           !.rt_stats.total_jobs_completed = @ + 1,
                           !.rt_stats.total_execution_time_ms =
                               @ + result.execution_time_ms],
                  result |-> result, job |-> job, executed |-> TRUE]

\* one tick: R = [scheduler, registry, backend_next, rt_stats]; the runtime
\* afterwards, the result returned, the job taken from the scheduler and
\* whether backend.execute was called
schedule_and_execute(R, outcome) ==
    LET sn == schedule_next(R.scheduler)
        job == sn.job
    IN  IF job = NoJob
        THEN [r |-> R, result |-> NoResult, job |-> NoJob, executed |-> FALSE]
        ELSE IF job.target_backend \notin R.registry
        THEN [r |-> [R EXCEPT !.scheduler = sn.s], result |-> NoResult,
              job |-> job, executed |-> FALSE]
        ELSE IF outcome = "Err"
        THEN LET result == JobResult_failure(job.id, IrError_to_string(BackendError))
             IN  [r |-> [R EXCEPT
                           !.scheduler = complete(sn.s, job.id, result),
                           !.rt_stats.total_jobs_failed = @ + 1],
                  result |-> result, job |-> job, executed |-> TRUE]
        ELSE LET result == backend_result(R.backend_next[job.target_backend], outcome)
             IN  [r |-> [R EXCEPT
                           !.scheduler = complete(sn.s, job.id, result),
                           !.backend_next[job.target_backend] = @ + 1,
                           !.rt_stats.total_jobs_completed = @ + 1,
                           !.rt_stats.total_execution_time_ms =
                               @ + result.execution_time_ms],
                  result |-> result, job |-> job, executed |-> TRUE]

\* the outcome of the k-th backend call of one execute_all
outcome_at(outcomes, k) ==
    IF k <= Len(outcomes) THEN outcomes[k] ELSE "Completed"

\* execute_all from its k-th tick on: the runtime afterwards, the results
\* collected, the job the last tick took from the scheduler when it ended
\* without a result (NoJob when the scheduler had none to give), the
\* number of backend.execute calls made and the number of ticks
RECURSIVE execute_all(_, _, _, _)
execute_all(R, outcomes, k, results) ==
    LET t == schedule_and_execute(R, outcome_at(outcomes, k))
    IN  IF t.result = NoResult
        THEN [r |-> t.r, results |-> results, job |-> t.job,
              calls |-> IF t.executed THEN k ELSE k - 1, ticks |-> k]
        ELSE execute_all(t.r, outcomes, k + 1, Append(results, t.result))

get_job_status(job_id) == get_status(scheduler, job_id)

get_job_result(job_id) == get_result(scheduler, job_id)

RuntimeState ==
    [scheduler |-> scheduler, registry |-> registry,
     backend_next |-> backend_next, rt_stats |-> rt_stats]

\* ---- the calls of a client of one QuantumRuntime --------------------------

Rt_register_backend ==
    /\ \E id \in BackendNames :
          /\ registry' = registry \cup {id}
          /\ backend_next' = [backend_next EXCEPT ![id] = MockFirstJobId]
    /\ op' = "register_backend"
    /\ ret_results' = <<>>
    /\ ea_ticks' = 0
    /\ backend_ret' = <<>>
    /\ call_job' = 0
    /\ ret_job' = NoJob
    /\ ret_result' = NoResult
    /\ ret_ok' = FALSE
    /\ UNCHANGED <<dagVars, compVars, cancelled, scheduler, job_counter, rt_stats, dispatched>>

Rt_submit_job ==
    /\ job_counter <= MaxJobs
    /\ \E job \in NewJobs(BackendNames, RuntimePriorities) :
          /\ scheduler' = submit(scheduler, job)
          /\ call_job' = job.id
    /\ rt_stats' = [rt_stats EXCEPT !.total_jobs_submitted = @ + 1]
    /\ job_counter' = job_counter + 1
    /\ op' = "submit_job"
    /\ ret_results' = <<>>
    /\ ea_ticks' = 0
    /\ backend_ret' = <<>>
    /\ ret_job' = NoJob
    /\ ret_result' = NoResult
    /\ ret_ok' = FALSE
    /\ UNCHANGED <<dagVars, compVars, cancelled, registry, backend_next, dispatched>>

\* create_job for a circuit whose qubit footprint is one of `footprints`
create_job_call(footprints) ==
    /\ job_counter <= MaxJobs
    /\ \E name \in CircuitNames, fp \in footprints,
          priority \in RuntimePriorities :
          LET job == with_priority(
                         Job_new(job_counter, fp, create_job_target(name)),
                         priority)
          IN  /\ scheduler' = submit(scheduler, job)
              /\ call_job' = job.id
    /\ rt_stats' = [rt_stats EXCEPT !.total_jobs_submitted = @ + 1]
    /\ job_counter' = job_counter + 1
    /\ op' = "create_job"
    /\ ret_results' = <<>>
    /\ ea_ticks' = 0
    /\ backend_ret' = <<>>
    /\ ret_job' = NoJob
    /\ ret_result' = NoResult
    /\ ret_ok' = FALSE
    /\ UNCHANGED <<dagVars, compVars, cancelled, registry, backend_next, dispatched>>

Rt_create_job == create_job_call(JobFootprints)

Rt_schedule_and_execute ==
    /\ \E outcome \in BackendOutcomes :
          LET t == schedule_and_execute(RuntimeState, outcome)
          IN  /\ scheduler' = t.r.scheduler
              /\ backend_next' = t.r.backend_next
              /\ rt_stats' = t.r.rt_stats
              /\ ret_result' = t.result
              /\ ret_results' = <<>>
              /\ ea_ticks' = 0
              /\ backend_ret' = IF t.executed THEN <<outcome>> ELSE <<>>
              /\ call_job' = t.job.id
              /\ dispatched' = IF t.job # NoJob /\ t.result = NoResult
                               THEN dispatched \cup {t.job}
                               ELSE dispatched
    /\ op' = "schedule_and_execute"
    /\ ret_job' = NoJob
    /\ ret_ok' = FALSE
    /\ UNCHANGED <<dagVars, compVars, cancelled, job_counter, registry>>

\* execute_all against backends whose execute hands back one of
\* `backend_outcomes`
execute_all_call(backend_outcomes) ==
    /\ \E outcomes \in [1..Len(scheduler.queue) -> backend_outcomes] :
          LET t == execute_all(RuntimeState, outcomes, 1, <<>>)
          IN  /\ scheduler' = t.r.scheduler
              /\ backend_next' = t.r.backend_next
              /\ rt_stats' = t.r.rt_stats
              /\ ret_results' = t.results
              /\ ea_ticks' = t.ticks
              /\ backend_ret' = [i \in 1..t.calls |-> outcome_at(outcomes, i)]
              /\ call_job' = t.job.id
              /\ dispatched' = IF t.job # NoJob THEN dispatched \cup {t.job}
                               ELSE dispatched
    /\ op' = "execute_all"
    /\ ret_job' = NoJob
    /\ ret_result' = NoResult
    /\ ret_ok' = FALSE
    /\ UNCHANGED <<dagVars, compVars, cancelled, job_counter, registry>>

Rt_execute_all == execute_all_call(BackendOutcomes)

Rt_cancel_job ==
    /\ \E job_id \in 1..MaxJobs :
          LET r == cancel(scheduler, job_id)
          IN  /\ scheduler' = r.s
              /\ ret_ok' = r.ok
              /\ dispatched' = IF r.ok THEN {j \in dispatched : j.id # job_id}
                               ELSE dispatched
              /\ cancelled' = IF r.ok THEN cancelled \cup {job_id} ELSE cancelled
              /\ call_job' = job_id
    /\ op' = "cancel_job"
    /\ ret_results' = <<>>
    /\ ea_ticks' = 0
    /\ backend_ret' = <<>>
    /\ ret_job' = NoJob
    /\ ret_result' = NoResult
    /\ UNCHANGED <<dagVars, compVars, job_counter, registry, backend_next, rt_stats>>

\* ------------------------------------------------------------------------
\* JobQueue used on its own (job.rs)
\* ------------------------------------------------------------------------
\* JobQueue::pop: the queue afterwards and the job returned
pop(queue) ==
    IF queue = <<>> THEN [jobs |-> queue, job |-> NoJob]
    ELSE [jobs |-> Tail(queue), job |-> Head(queue)]

\* JobQueue::remove: the queue afterwards and the job returned
remove(queue, id) ==
    LET pos == position_of(queue, id)
    IN  IF pos = 0 THEN [jobs |-> queue, job |-> NoJob]
        ELSE [jobs |-> RemoveAt(queue, pos), job |-> queue[pos]]

JobQueue_new ==
    /\ jq_jobs = <<>>
    /\ jq_op = "new"
    /\ jq_ret = NoJob

\* push of a job fresh from Job::new(..).with_priority(..)
JobQueue_push ==
    /\ job_counter <= MaxQueued
    /\ \E priority \in Priorities :
          jq_jobs' = push(jq_jobs,
                          with_priority(Job_new(job_counter, {}, DefaultBackend),
                                        priority))
    /\ job_counter' = job_counter + 1
    /\ jq_op' = "push"
    /\ jq_ret' = NoJob
    /\ UNCHANGED <<dagVars, qubitVars, mappingVars, timedJobVars, extraVars,
                   scheduler, registry, backend_next, rt_stats, op, ret_job,
                   ret_result, ret_ok, ret_results, backend_ret, call_job,
                   cancelled, dispatched, ea_ticks>>

JobQueue_pop ==
    /\ LET r == pop(jq_jobs)
       IN  jq_jobs' = r.jobs /\ jq_ret' = r.job
    /\ jq_op' = "pop"
    /\ UNCHANGED <<dagVars, schedVars, qubitVars, mappingVars, timedJobVars,
                   extraVars>>

JobQueue_remove ==
    /\ \E id \in 1..MaxQueued :
          LET r == remove(jq_jobs, id)
          IN  jq_jobs' = r.jobs /\ jq_ret' = r.job
    /\ jq_op' = "remove"
    /\ UNCHANGED <<dagVars, schedVars, qubitVars, mappingVars, timedJobVars,
                   extraVars>>

NextQueue ==
    \/ JobQueue_push
    \/ JobQueue_pop
    \/ JobQueue_remove

\* ------------------------------------------------------------------------
\* LogicalQubitManager (qubit.rs)
\* ------------------------------------------------------------------------
PhysicalQubitIds == 0..(NumPhysical - 1)

\* LogicalQubit::new
LogicalQubit_new(id) ==
    [id |-> id, state |-> "Allocated", physical_mapping |-> None,
     is_ancilla |-> FALSE]

\* LogicalQubit::with_ancilla
with_ancilla(id) ==
    [id |-> id, state |-> "Allocated", physical_mapping |-> None,
     is_ancilla |-> TRUE]

\* LogicalQubit::free
LogicalQubit_free(qubit) ==
    [qubit EXCEPT !.state = "Freed", !.physical_mapping = None]

\* LogicalQubit::map_to_physical
map_to_physical(qubit, physical_id) ==
    [qubit EXCEPT !.physical_mapping = physical_id]

\* a manager: [next_id, allocated (id -> LogicalQubit), free_list]
ManagerState ==
    [next_id |-> next_id, allocated |-> allocated, free_list |-> free_list]

\* the HashMap with one entry inserted or replaced
Insert(map, key, value) ==
    [k \in DOMAIN map \cup {key} |-> IF k = key THEN value ELSE map[k]]

\* an allocate that reuses the OLDEST freed id
allocate_oldest(M) ==
    IF M.free_list # <<>>
    THEN LET id == Head(M.free_list)
         IN  [m |-> [M EXCEPT !.free_list = Tail(M.free_list),
                              !.allocated =
                                  IF id \in DOMAIN M.allocated
                                  THEN [M.allocated EXCEPT
                                           ![id].state = "Allocated",
                                           ![id].physical_mapping = None]
                                  ELSE M.allocated],
              id |-> id]
    ELSE LET id == M.next_id
         IN  [m |-> [M EXCEPT !.next_id = M.next_id + 1,
                              !.allocated =
                                  Insert(M.allocated, id, LogicalQubit_new(id))],
              id |-> id]

\* LogicalQubitManager::allocate: the manager afterwards and the id returned
allocate(M) ==
    IF M.free_list # <<>>
    THEN LET id == M.free_list[Len(M.free_list)]
         IN  [m |-> [M EXCEPT !.free_list =
                                  SubSeq(M.free_list, 1, Len(M.free_list) - 1),
                              !.allocated =
                                  IF id \in DOMAIN M.allocated
                                  THEN [M.allocated EXCEPT
                                           ![id].state = "Allocated",
                                           ![id].physical_mapping = None]
                                  ELSE M.allocated],
              id |-> id]
    ELSE LET id == M.next_id
         IN  [m |-> [M EXCEPT !.next_id = M.next_id + 1,
                              !.allocated =
                                  Insert(M.allocated, id, LogicalQubit_new(id))],
              id |-> id]

\* LogicalQubitManager::allocate_ancilla
allocate_ancilla(M) ==
    LET id == M.next_id
    IN  [m |-> [M EXCEPT !.next_id = M.next_id + 1,
                         !.allocated =
                             Insert(M.allocated, id, with_ancilla(id))],
         id |-> id]

\* LogicalQubitManager::free: the manager afterwards and the bool returned
free(M, id) ==
    IF id \in DOMAIN M.allocated
    THEN [m |-> [M EXCEPT !.allocated[id] = LogicalQubit_free(M.allocated[id]),
                          !.free_list = Append(M.free_list, id)],
          ok |-> TRUE]
    ELSE [m |-> M, ok |-> FALSE]

\* LogicalQubitManager::active_count
active_count(M) ==
    Cardinality({id \in DOMAIN M.allocated :
                    M.allocated[id].state = "Allocated"})

\* LogicalQubitManager::reset
reset(M) ==
    [next_id |-> 0, allocated |-> <<>>, free_list |-> <<>>]

LogicalQubitManager_new ==
    /\ next_id = 0
    /\ allocated = <<>>
    /\ free_list = <<>>
    /\ qm_op = "new"
    /\ qm_arg = None
    /\ qm_ret = [id |-> None, ok |-> FALSE]
    /\ issued = {}

QubitManagerOthers ==
    <<dagVars, schedVars, queueVars, mappingVars, timedJobVars, extraVars>>

Qm_allocate ==
    /\ free_list # <<>> \/ next_id < MaxLogical
    /\ LET r == allocate(ManagerState)
       IN  /\ next_id' = r.m.next_id
           /\ allocated' = r.m.allocated
           /\ free_list' = r.m.free_list
           /\ qm_ret' = [id |-> r.id, ok |-> TRUE]
           /\ issued' = issued \cup {r.id}
    /\ qm_op' = "allocate"
    /\ qm_arg' = None
    /\ UNCHANGED QubitManagerOthers

Qm_allocate_ancilla ==
    /\ next_id < MaxLogical
    /\ LET r == allocate_ancilla(ManagerState)
       IN  /\ next_id' = r.m.next_id
           /\ allocated' = r.m.allocated
           /\ free_list' = r.m.free_list
           /\ qm_ret' = [id |-> r.id, ok |-> TRUE]
           /\ issued' = issued \cup {r.id}
    /\ qm_op' = "allocate_ancilla"
    /\ qm_arg' = None
    /\ UNCHANGED QubitManagerOthers

Qm_free ==
    /\ Len(free_list) < MaxFreeList
    /\ \E id \in 0..MaxLogical :
          LET r == free(ManagerState, id)
          IN  /\ next_id' = r.m.next_id
              /\ allocated' = r.m.allocated
              /\ free_list' = r.m.free_list
              /\ qm_ret' = [id |-> None, ok |-> r.ok]
              /\ qm_arg' = id
    /\ qm_op' = "free"
    /\ UNCHANGED <<issued, QubitManagerOthers>>

\* get_mut(id).map(|q| q.map_to_physical(p)): the caller records a mapping
Qm_map_to_physical ==
    /\ \E id \in DOMAIN allocated, physical_id \in PhysicalQubitIds :
          /\ allocated' = [allocated EXCEPT
                              ![id] = map_to_physical(allocated[id], physical_id)]
          /\ qm_arg' = id
    /\ qm_op' = "map_to_physical"
    /\ qm_ret' = [id |-> None, ok |-> TRUE]
    /\ UNCHANGED <<next_id, free_list, issued, QubitManagerOthers>>

Qm_reset ==
    /\ LET m == reset(ManagerState)
       IN  /\ next_id' = m.next_id
           /\ allocated' = m.allocated
           /\ free_list' = m.free_list
    /\ issued' = {}
    /\ qm_op' = "reset"
    /\ qm_arg' = None
    /\ qm_ret' = [id |-> None, ok |-> TRUE]
    /\ UNCHANGED QubitManagerOthers

NextQubits ==
    \/ Qm_allocate
    \/ Qm_allocate_ancilla
    \/ Qm_free
    \/ Qm_map_to_physical
    \/ Qm_reset

\* ------------------------------------------------------------------------
\* QubitMapping (qubit.rs)
\* ------------------------------------------------------------------------
LogicalQubitIds == 0..(MaxLogical - 1)

\* the HashMap with the key removed
Remove(map, key) == [k \in DOMAIN map \ {key} |-> map[k]]

\* a mapping: the two tables of the QubitMapping
MappingState ==
    [logical_to_physical |-> logical_to_physical,
     physical_to_logical |-> physical_to_logical]

\* QubitMapping::map: the tables afterwards and the old physical id (or None)
map(T, logical, physical) ==
    LET old == IF logical \in DOMAIN T.logical_to_physical
               THEN T.logical_to_physical[logical] ELSE None
        l2p == Insert(T.logical_to_physical, logical, physical)
        p2l == IF old # None THEN Remove(T.physical_to_logical, old)
               ELSE T.physical_to_logical
    IN  [t |-> [logical_to_physical |-> l2p,
                physical_to_logical |-> Insert(p2l, physical, logical)],
         ret |-> old]

\* QubitMapping::unmap: the tables afterwards and the physical id (or None)
unmap(T, logical) ==
    IF logical \in DOMAIN T.logical_to_physical
    THEN LET physical == T.logical_to_physical[logical]
         IN  [t |-> [logical_to_physical |->
                         Remove(T.logical_to_physical, logical),
                     physical_to_logical |->
                         Remove(T.physical_to_logical, physical)],
              ret |-> physical]
    ELSE [t |-> T, ret |-> None]

\* QubitMapping::get_physical
get_physical(T, logical) ==
    IF logical \in DOMAIN T.logical_to_physical
    THEN T.logical_to_physical[logical] ELSE None

\* QubitMapping::get_logical
get_logical(T, physical) ==
    IF physical \in DOMAIN T.physical_to_logical
    THEN T.physical_to_logical[physical] ELSE None

QubitMapping_new ==
    /\ logical_to_physical = <<>>
    /\ physical_to_logical = <<>>
    /\ qmap_op = [name |-> "new", logical |-> None, physical |-> None,
                  ret |-> None]

QubitMappingOthers ==
    <<dagVars, schedVars, queueVars, qubitVars, timedJobVars, extraVars>>

Qmap_map ==
    /\ \E logical \in LogicalQubitIds, physical \in PhysicalQubitIds :
          LET r == map(MappingState, logical, physical)
          IN  /\ logical_to_physical' = r.t.logical_to_physical
              /\ physical_to_logical' = r.t.physical_to_logical
              /\ qmap_op' = [name |-> "map", logical |-> logical,
                             physical |-> physical, ret |-> r.ret]
    /\ UNCHANGED QubitMappingOthers

Qmap_unmap ==
    /\ \E logical \in LogicalQubitIds :
          LET r == unmap(MappingState, logical)
          IN  /\ logical_to_physical' = r.t.logical_to_physical
              /\ physical_to_logical' = r.t.physical_to_logical
              /\ qmap_op' = [name |-> "unmap", logical |-> logical,
                             physical |-> None, ret |-> r.ret]
    /\ UNCHANGED QubitMappingOthers

Qmap_clear ==
    /\ logical_to_physical' = <<>>
    /\ physical_to_logical' = <<>>
    /\ qmap_op' = [name |-> "clear", logical |-> None, physical |-> None,
                   ret |-> None]
    /\ UNCHANGED QubitMappingOthers

NextMapping ==
    \/ Qmap_map
    \/ Qmap_unmap
    \/ Qmap_clear

\* ------------------------------------------------------------------------
\* One Job and its timestamps (job.rs)
\* ------------------------------------------------------------------------
JobStatuses ==
    {"Pending", "Queued", "Ready", "Running", "Completed", "Failed",
     "Cancelled", "Waiting"}

\* Job::set_status with the timestamps, at clock value t
set_status_at(job, status, t) ==
    [job EXCEPT
        !.status = status,
        !.submitted_at = IF status = "Queued" THEN t ELSE @,
        !.started_at = IF status = "Running" THEN t ELSE @,
        !.completed_at = IF is_terminal(status) THEN t ELSE @]

\* Job::cancel with the timestamps, at clock value t
Job_cancel_at(job, t) ==
    IF is_terminal(job.status) THEN job
    ELSE set_status_at(job, "Cancelled", t)

\* Job::new at clock value 0; the job is in the caller's hands
TimedJob_new ==
    /\ now = 0
    /\ tjob = [status |-> "Pending", created_at |-> 0, submitted_at |-> None,
               started_at |-> None, completed_at |-> None]
    /\ tjob_at = "caller"
    /\ tjob_op = "new"

TimedJobOthers ==
    <<dagVars, schedVars, queueVars, qubitVars, mappingVars, extraVars>>

\* the system clock moves on (whole seconds, never backwards)
Tj_tick ==
    /\ now < MaxClock
    /\ now' = now + 1
    /\ tjob_op' = "tick"
    /\ UNCHANGED <<tjob, tjob_at, TimedJobOthers>>

\* JobScheduler::submit of the job the caller holds (a job that
\* schedule_next returned and the caller hands in again included)
Tj_submit ==
    /\ tjob_at = "caller"
    /\ tjob' = set_status_at(tjob, "Queued", now)
    /\ tjob_at' = "queue"
    /\ tjob_op' = "submit"
    /\ UNCHANGED <<now, TimedJobOthers>>

\* JobScheduler::start_execution(id): a queued job is set Running in place;
\* `running` is empty, so any other id changes nothing
Tj_start_execution ==
    /\ tjob' = IF tjob_at = "queue" THEN set_status_at(tjob, "Running", now)
               ELSE tjob
    /\ tjob_op' = "start_execution"
    /\ UNCHANGED <<now, tjob_at, TimedJobOthers>>

\* JobScheduler::schedule_next: the only queued job (no dependencies, no
\* qubits) is taken out, set Ready and returned
Tj_schedule_next ==
    /\ tjob' = IF tjob_at = "queue" THEN set_status_at(tjob, "Ready", now)
               ELSE tjob
    /\ tjob_at' = IF tjob_at = "queue" THEN "caller" ELSE tjob_at
    /\ tjob_op' = "schedule_next"
    /\ UNCHANGED <<now, TimedJobOthers>>

\* JobScheduler::cancel(id): a queued job is removed, cancelled and dropped
Tj_cancel ==
    /\ tjob' = IF tjob_at = "queue" THEN Job_cancel_at(tjob, now) ELSE tjob
    /\ tjob_at' = IF tjob_at = "queue" THEN "dropped" ELSE tjob_at
    /\ tjob_op' = "cancel"
    /\ UNCHANGED <<now, TimedJobOthers>>

\* Job::set_status called by the holder of the job
Tj_set_status ==
    /\ tjob_at = "caller"
    /\ \E status \in JobStatuses : tjob' = set_status_at(tjob, status, now)
    /\ tjob_op' = "set_status"
    /\ UNCHANGED <<now, tjob_at, TimedJobOthers>>

NextJobLife ==
    \/ Tj_tick
    \/ Tj_submit
    \/ Tj_start_execution
    \/ Tj_schedule_next
    \/ Tj_cancel
    \/ Tj_set_status

\* ------------------------------------------------------------------------
\* MockBackendAdapter / IdealSimulatorBackend shared by threads (backend.rs)
\* ------------------------------------------------------------------------
Threads == 1..NumThreads

\* the ids the threads ask about: issued ones and one never issued
AdapterJobIds == MockFirstJobId..(MockFirstJobId + MaxSubmits)

\* Result<..> of an adapter call: the error kind ("none" for Ok), the status
\* and the result carried
AdapterRet(name, thread, job_id, err, status, result) ==
    [name |-> name, thread |-> thread, job_id |-> job_id, err |-> err,
     status |-> status, result |-> result]

\* a MockJobState stored without a result
MockJobState_pending(job_id) ==
    [status |-> "Completed", result |-> NoResult]

\* the MockJobState submit_job inserts: Completed, with the result built
\* for the minted id
MockJobState_inserted(job_id) ==
    [status |-> "Completed", result |-> backend_result(job_id, "Completed")]

\* get_job_status under the lock
adapter_get_job_status(J, job_id) ==
    IF job_id \in DOMAIN J
    THEN [err |-> "none", status |-> J[job_id].status]
    ELSE [err |-> "QubitNotFound", status |-> "none"]

\* get_job_result under the lock: the entry's result, an error when there is
\* no entry or the entry holds no result
adapter_get_job_result(J, job_id) ==
    IF job_id \in DOMAIN J /\ J[job_id].result # NoResult
    THEN [err |-> "none", result |-> J[job_id].result]
    ELSE [err |-> "QubitNotFound", result |-> NoResult]

\* cancel_job under the lock: the table afterwards and the error kind
adapter_cancel_job(J, job_id) ==
    IF job_id \in DOMAIN J /\ ~is_terminal(J[job_id].status)
    THEN [jobs |-> [J EXCEPT ![job_id].status = "Cancelled"], err |-> "none"]
    ELSE [jobs |-> J, err |-> "JobExecutionFailed"]

MockBackendAdapter_new ==
    /\ ad_jobs = <<>>
    /\ ad_next_job_id = MockFirstJobId
    /\ ad_pc = [t \in Threads |-> [pc |-> "idle", job_id |-> None]]
    /\ ad_returned = <<>>
    /\ ad_last = AdapterRet("new", 0, None, "none", "none", NoResult)

AdapterOthers ==
    <<dagVars, schedVars, queueVars, qubitVars, mappingVars, timedJobVars,
      resultVars, builderVars>>

\* submit_job, first step: next_job_id.fetch_add(1), one atomic step; the
\* result is then built from the thread's own data
Ad_submit_fetch_add(t) ==
    /\ ad_pc[t].pc = "idle"
    /\ ad_next_job_id < MockFirstJobId + MaxSubmits
    /\ ad_next_job_id' = ad_next_job_id + 1
    /\ ad_pc' = [ad_pc EXCEPT ![t] = [pc |-> "insert", job_id |-> ad_next_job_id]]
    /\ UNCHANGED <<ad_jobs, ad_returned, ad_last, AdapterOthers>>

\* submit_job, second step: lock, jobs.insert(job_id, state), unlock
Ad_submit_insert(t) ==
    /\ ad_pc[t].pc = "insert"
    /\ ad_jobs' = Insert(ad_jobs, ad_pc[t].job_id,
                         MockJobState_inserted(ad_pc[t].job_id))
    /\ ad_pc' = [ad_pc EXCEPT ![t].pc = "return"]
    /\ UNCHANGED <<ad_next_job_id, ad_returned, ad_last, AdapterOthers>>

\* submit_job, last step: Ok(job_id) reaches the caller
Ad_submit_return(t) ==
    /\ ad_pc[t].pc = "return"
    /\ ad_returned' = Append(ad_returned, ad_pc[t].job_id)
    /\ ad_last' = AdapterRet("submit_job", t, ad_pc[t].job_id, "none", "none",
                             NoResult)
    /\ ad_pc' = [ad_pc EXCEPT ![t] = [pc |-> "idle", job_id |-> None]]
    /\ UNCHANGED <<ad_jobs, ad_next_job_id, AdapterOthers>>

Ad_get_job_status(t) ==
    /\ ad_pc[t].pc = "idle"
    /\ \E job_id \in AdapterJobIds :
          LET r == adapter_get_job_status(ad_jobs, job_id)
          IN  ad_last' = AdapterRet("get_job_status", t, job_id, r.err,
                                    r.status, NoResult)
    /\ UNCHANGED <<ad_jobs, ad_next_job_id, ad_pc, ad_returned, AdapterOthers>>

Ad_get_job_result(t) ==
    /\ ad_pc[t].pc = "idle"
    /\ \E job_id \in AdapterJobIds :
          LET r == adapter_get_job_result(ad_jobs, job_id)
          IN  ad_last' = AdapterRet("get_job_result", t, job_id, r.err,
                                    "none", r.result)
    /\ UNCHANGED <<ad_jobs, ad_next_job_id, ad_pc, ad_returned, AdapterOthers>>

Ad_cancel_job(t) ==
    /\ ad_pc[t].pc = "idle"
    /\ \E job_id \in AdapterJobIds :
          LET r == adapter_cancel_job(ad_jobs, job_id)
          IN  /\ ad_jobs' = r.jobs
              /\ ad_last' = AdapterRet("cancel_job", t, job_id, r.err, "none",
                                       NoResult)
    /\ UNCHANGED <<ad_next_job_id, ad_pc, ad_returned, AdapterOthers>>

NextAdapter ==
    \E t \in Threads :
        \/ Ad_submit_fetch_add(t)
        \/ Ad_submit_insert(t)
        \/ Ad_submit_return(t)
        \/ Ad_get_job_status(t)
        \/ Ad_get_job_result(t)
        \/ Ad_cancel_job(t)

\* ------------------------------------------------------------------------
\* JobResult counts and statistics (job.rs)
\* ------------------------------------------------------------------------
\* the u8 values a backend may report for one shot
CountValues == 0..MaxCountValue

RECURSIVE Gcd(_, _)
Gcd(a, b) == IF b = 0 THEN a ELSE Gcd(b, a % b)

\* the f64 quotient n / d of two small integers, kept as the fraction in
\* lowest terms (two quotients are the same f64 exactly when these agree)
Quotient(n, d) == <<n \div Gcd(n, d), d \div Gcd(n, d)>>

\* the f64 0.0
Zero == Quotient(0, 1)

RECURSIVE SumOf(_)
SumOf(counts) == IF counts = <<>> THEN 0 ELSE Head(counts) + SumOf(Tail(counts))

\* an add_counts that stores the mean of the entries
add_counts_mean(R, qubit, counts) ==
    LET total == Len(counts)
        prob == IF total > 0 THEN Quotient(SumOf(counts), total) ELSE Zero
    IN  [counts |-> Insert(R.counts, qubit, counts),
         statistics |-> Insert(R.statistics, qubit, prob)]

\* JobResult::add_counts on the two maps of a result
add_counts(R, qubit, counts) ==
    LET ones == Cardinality({i \in 1..Len(counts) : counts[i] = 1})
        total == Len(counts)
        prob == IF total > 0 THEN Quotient(ones, total) ELSE Zero
    IN  [counts |-> Insert(R.counts, qubit, counts),
         statistics |-> Insert(R.statistics, qubit, prob)]

\* JobResult::get_probability (None for a qubit without statistics)
get_probability(R, qubit) ==
    IF qubit \in DOMAIN R.statistics THEN R.statistics[qubit] ELSE <<None, None>>

\* JobResult::success: both maps empty
JobResult_maps_new ==
    /\ res_counts = <<>>
    /\ res_statistics = <<>>
    /\ res_op = [name |-> "success", qubit |-> None]

Res_add_counts ==
    /\ \E qubit \in QubitIds, counts \in SeqsUpTo(CountValues, MaxShots) :
          LET r == add_counts([counts |-> res_counts,
                               statistics |-> res_statistics], qubit, counts)
          IN  /\ res_counts' = r.counts
              /\ res_statistics' = r.statistics
              /\ res_op' = [name |-> "add_counts", qubit |-> qubit]
    /\ UNCHANGED <<dagVars, schedVars, queueVars, qubitVars, mappingVars,
                   timedJobVars, adapterVars, builderVars>>

NextResult == Res_add_counts

\* ------------------------------------------------------------------------
\* CircuitDagBuilder (circuit.rs)
\* ------------------------------------------------------------------------
\* CircuitDagBuilder::new: no operation was added, so no node has qubits
CircuitDagBuilder_new ==
    /\ node_qubits = [i \in NodeSlots |-> {}]
    /\ last_ops = <<>>

\* deps.sort(); deps.dedup(): the distinct values in ascending order
RECURSIVE sort_dedup(_)
sort_dedup(S) ==
    IF S = {} THEN <<>>
    ELSE LET m == CHOOSE x \in S : \A y \in S : x <= y
         IN  <<m>> \o sort_dedup(S \ {m})

\* the dependencies add_op collects for an operation on the qubits Q: the
\* last_ops entry of every qubit the vector already covers
add_op_deps(L, Q) == sort_dedup({L[q + 1] : q \in {x \in Q : x < Len(L)}})

\* CircuitDag::add_edge on the DAG D, its Result dropped (`let _ =`)
dag_add_edge(D, from, to) ==
    IF from >= Len(D.nodes) \/ to >= Len(D.nodes) THEN D
    ELSE IF would_create_cycle(D.edges, from, to) THEN D
    ELSE [nodes |-> [D.nodes EXCEPT ![to + 1].depends_on = Append(@, from)],
          edges |-> Append(D.edges, <<from, to>>),
          cached_depth |-> None]

\* the loop `for &dep in &deps` of add_op
RECURSIVE add_op_edges(_, _, _, _)
add_op_edges(D, deps, k, node_id) ==
    IF k > Len(deps) THEN D
    ELSE add_op_edges(dag_add_edge(D, deps[k], node_id), deps, k + 1, node_id)

\* a last_ops update that fills the vector with node 0
last_ops_after_fill_zero(L, Q, node_id) ==
    LET len == MaxOf({Len(L)} \cup {q + 1 : q \in Q}, 0)
    IN  [i \in 1..len |->
            IF (i - 1) \in Q THEN node_id
            ELSE IF i <= Len(L) THEN L[i]
            ELSE 0]

\* last_ops after the last loop of add_op: the vector is grown with
\* usize::MAX up to each qubit of the operation, whose entry is then set
last_ops_after(L, Q, node_id) ==
    LET len == MaxOf({Len(L)} \cup {q + 1 : q \in Q}, 0)
    IN  [i \in 1..len |->
            IF (i - 1) \in Q THEN node_id
            ELSE IF i <= Len(L) THEN L[i]
            ELSE usize_MAX]

\* CircuitDagBuilder::add_op(op), the qubits of op being those of the next
\* node id
add_op ==
    /\ Len(nodes) < MaxOps
    /\ LET Q == node_qubits[Len(nodes)]
           deps == add_op_deps(last_ops, Q)
           node_id == Len(nodes)
           D == add_op_edges([nodes |-> Append(nodes, OperationNode(node_id)),
                              edges |-> edges,
                              cached_depth |-> None], deps, 1, node_id)
       IN  /\ nodes' = D.nodes
           /\ edges' = D.edges
           /\ cached_depth' = D.cached_depth
           /\ last_ops' = last_ops_after(last_ops, Q, node_id)
           /\ dag_op' = "add_op"
           /\ dag_args' = deps
           /\ dag_ret' = DagRet("none", node_id, <<>>)
    /\ UNCHANGED <<node_qubits, schedVars, queueVars, qubitVars, mappingVars,
                   timedJobVars, adapterVars, resultVars>>

NextBuilder ==
    \/ add_op
    \/ depth

\* every component as its constructor leaves it
Components_new ==
    /\ JobQueue_new
    /\ LogicalQubitManager_new
    /\ QubitMapping_new
    /\ TimedJob_new
    /\ MockBackendAdapter_new
    /\ JobResult_maps_new
    /\ CircuitDagBuilder_new

\* ------------------------------------------------------------------------
\* Specifications
\* ------------------------------------------------------------------------
\* JobScheduler::new(max) as it is, or .with_qubits(all the qubits), in a
\* runtime without backends
JobScheduler_init ==
    /\ scheduler \in {with_qubits(JobScheduler_new(m), qs) :
                        m \in 0..MaxConcurrent, qs \in {{}, QubitIds}}
    /\ job_counter = 1
    /\ registry = {}
    /\ backend_next = [b \in BackendNames |-> MockFirstJobId]
    /\ rt_stats = RuntimeStats_default
    /\ op = "new"
    /\ call_job = 0
    /\ ret_job = NoJob
    /\ ret_result = NoResult
    /\ ret_ok = FALSE
    /\ ret_results = <<>>
    /\ backend_ret = <<>>
    /\ cancelled = {}
    /\ dispatched = {}
    /\ ea_ticks = 0

\* the circuit DAG engine on its own
InitDag ==
    /\ CircuitDag_new
    /\ JobScheduler_init
    /\ Components_new
    /\ scheduler = JobScheduler_new(MaxConcurrent)

SpecDag == InitDag /\ [][NextDag]_vars

\* one JobScheduler driven through its own interface
InitSched == CircuitDag_new /\ JobScheduler_init /\ Components_new

NextSched ==
    \/ Sched_submit
    \/ Sched_schedule_next
    \/ Sched_start_execution
    \/ Sched_complete
    \/ Sched_cancel

SpecSched == InitSched /\ [][NextSched]_vars

\* one QuantumRuntime driven through its own interface
\* QuantumRuntime::new(config) with max_concurrent_jobs = MaxConcurrent, its
\* scheduler as built or replaced through scheduler_mut() by one with qubits
InitRuntime ==
    /\ CircuitDag_new
    /\ JobScheduler_init
    /\ Components_new
    /\ scheduler.max_concurrent_jobs = MaxConcurrent

NextRuntime ==
    \/ Rt_register_backend
    \/ Rt_submit_job
    \/ Rt_create_job
    \/ Rt_schedule_and_execute
    \/ Rt_execute_all
    \/ Rt_cancel_job

SpecRuntime == InitRuntime /\ [][NextRuntime]_vars

\* the end-to-end scenario of demo_runtime_execution: a runtime fresh from
\* QuantumRuntime::new, backends that execute successfully, jobs created with
\* create_job from circuits that use qubits, then execute_all
InitEndToEnd ==
    /\ CircuitDag_new
    /\ JobScheduler_init
    /\ Components_new
    /\ scheduler = JobScheduler_new(MaxConcurrent)

EndToEnd_create_job == create_job_call(JobFootprints \ {{}})

EndToEnd_execute_all == execute_all_call({"Completed"})

NextEndToEnd ==
    \/ Rt_register_backend
    \/ EndToEnd_create_job
    \/ EndToEnd_execute_all

SpecEndToEnd == InitEndToEnd /\ [][NextEndToEnd]_vars

\* one CircuitDag built from operations with qubits and asked which nodes
\* may run in parallel; node_qubits holds from the start the qubits of the
\* operation each add_node / add_node_with_deps call is given
InitParallel ==
    /\ CircuitDag_new
    /\ JobScheduler_init
    /\ scheduler = JobScheduler_new(MaxConcurrent)
    /\ JobQueue_new
    /\ LogicalQubitManager_new
    /\ QubitMapping_new
    /\ TimedJob_new
    /\ MockBackendAdapter_new
    /\ JobResult_maps_new
    /\ last_ops = <<>>
    /\ node_qubits \in {Q \in [NodeSlots -> Footprints] :
                           \A i \in NodeSlots : i >= MaxNodes => Q[i] = {}}

NextParallel ==
    \/ add_node
    \/ add_node_with_deps
    \/ add_edge
    \/ can_parallel_call

SpecParallel == InitParallel /\ [][NextParallel]_vars

\* one CircuitDagBuilder fed operations through add_op, and depth() of the
\* DAG it builds; node_qubits holds from the start the qubits of the
\* operation each add_op call is given
InitBuilder ==
    /\ CircuitDag_new
    /\ JobScheduler_init
    /\ scheduler = JobScheduler_new(MaxConcurrent)
    /\ JobQueue_new
    /\ LogicalQubitManager_new
    /\ QubitMapping_new
    /\ TimedJob_new
    /\ MockBackendAdapter_new
    /\ JobResult_maps_new
    /\ last_ops = <<>>
    /\ node_qubits \in [NodeSlots -> Footprints]

SpecBuilder == InitBuilder /\ [][NextBuilder]_vars

\* one CircuitDag with get_node_mut, compute_parallel_groups and clear too
SpecDagFull == InitDag /\ [][NextDagFull]_vars

\* one JobQueue driven through push / pop / remove
InitQueue == CircuitDag_new /\ JobScheduler_init /\ Components_new

SpecQueue == InitQueue /\ [][NextQueue]_vars

\* one LogicalQubitManager driven through its public API
InitQubits == CircuitDag_new /\ JobScheduler_init /\ Components_new

SpecQubits == InitQubits /\ [][NextQubits]_vars

\* one QubitMapping driven through map / unmap / clear
InitMapping == CircuitDag_new /\ JobScheduler_init /\ Components_new

SpecMapping == InitMapping /\ [][NextMapping]_vars

\* one job followed through the scheduler under a clock
InitJobLife == CircuitDag_new /\ JobScheduler_init /\ Components_new

SpecJobLife == InitJobLife /\ [][NextJobLife]_vars

\* one adapter shared by the threads
InitAdapter == CircuitDag_new /\ JobScheduler_init /\ Components_new

SpecAdapter == InitAdapter /\ [][NextAdapter]_vars

\* one JobResult filled by add_counts
InitResult == CircuitDag_new /\ JobScheduler_init /\ Components_new

SpecResult == InitResult /\ [][NextResult]_vars

\* ------------------------------------------------------------------------
\* Properties of the circuit DAG
\* ------------------------------------------------------------------------
EdgeSet == Range(edges)

NodeIds == 0..(Len(nodes) - 1)

\* transitive closure of a relation given as a set of pairs
RECURSIVE Closure(_)
Closure(R) ==
    LET step == R \cup {<<a[1], b[2]>> : a \in R, b \in R}
        joined == R \cup {p \in step : \E a \in R, b \in R :
                                         a[2] = b[1] /\ p = <<a[1], b[2]>>}
    IN  IF joined = R THEN R ELSE Closure(joined)

\* number of nodes on the longest directed path that ends in n
RECURSIVE LongestPathTo(_, _)
LongestPathTo(E, n) ==
    1 + MaxOf({LongestPathTo(E, e[1]) : e \in {x \in E : x[2] = n}}, 0)

LongestPath == MaxOf({LongestPathTo(EdgeSet, n) : n \in NodeIds}, 0)

IndexOf(order, n) == CHOOSE i \in 1..Len(order) : order[i] = n

\* C1: after any sequence of add_node / add_edge / add_node_with_deps calls
\* the graph formed by `edges` is acyclic: no node reaches itself along one
\* or more edges.
C1_Acyclic == \A n \in NodeIds : <<n, n>> \notin Closure(EdgeSet)

\* a cycle attempt over a path of two edges was made and rejected
C1_Witness ==
    /\ dag_op = "add_edge"
    /\ dag_ret.err = "CyclicDependency"
    /\ \E a \in EdgeSet, b \in EdgeSet : a[2] = b[1] /\ a[1] # b[2]

\* C2: topological_sort returns a sequence in which every node id appears
\* exactly once and, for every edge (f, t), f appears before t, also when the
\* same edge was added more than once.
C2_TopologicalOrder ==
    dag_op = "topological_sort" =>
        LET order == dag_ret.order
        IN  /\ Len(order) = Len(nodes)
            /\ \A n \in NodeIds : Cardinality({i \in 1..Len(order) : order[i] = n}) = 1
            /\ \A e \in EdgeSet : IndexOf(order, e[1]) < IndexOf(order, e[2])

\* topological_sort ran on a DAG that holds a duplicated edge and a node with
\* two distinct predecessors
C2_Witness ==
    /\ dag_op = "topological_sort"
    /\ \E i, j \in 1..Len(edges) : i # j /\ edges[i] = edges[j]
    /\ \E a \in EdgeSet, b \in EdgeSet : a[2] = b[2] /\ a[1] # b[1]

\* C3: depth() returns the number of nodes on the longest directed path: 0
\* for the empty DAG, n for a chain of n nodes, 1 + max over the predecessors
\* per node in general.
C3_DepthIsLongestPath ==
    dag_op = "depth" => dag_ret.num = LongestPath

\* depth() ran on a DAG with a node whose two predecessors differ in depth
C3_Witness ==
    /\ dag_op = "depth"
    /\ dag_ret.num = 3
    /\ \E a \in EdgeSet, b \in EdgeSet :
          a[2] = b[2] /\ a[1] # b[1] /\ <<a[1], b[1]>> \in EdgeSet

\* ------------------------------------------------------------------------
\* Properties of the scheduler and the runtime
\* ------------------------------------------------------------------------
QueuedJobs == Range(scheduler.queue)

\* schedule_next has just returned a job
Dispatched == op = "schedule_next" /\ ret_job # NoJob

\* Right after schedule_next returned ret_job: job K, still queued, was
\* schedulable at that call. The call left `completed` alone and took exactly
\* ret_job's qubits out of available_qubits.
SchedulableAtCall(K) ==
    /\ \A k \in 1..Len(K.depends_on) : K.depends_on[k] \in DOMAIN scheduler.completed
    /\ K.allocated_qubits \subseteq
           (scheduler.available_qubits \cup ret_job.allocated_qubits)

\* C4: whenever schedule_next returns a job J, no job that was queued and
\* schedulable at that call has a strictly higher priority than J.
C4_PriorityLaw ==
    Dispatched =>
        \A K \in QueuedJobs : SchedulableAtCall(K) => K.priority <= ret_job.priority

\* an Urgent job was dispatched ahead of a schedulable Low or Normal job that
\* needs one of the same qubits
C4_Witness ==
    /\ Dispatched
    /\ ret_job.priority = Urgent
    /\ \E K \in QueuedJobs :
          /\ K.priority \in {Low, Normal}
          /\ SchedulableAtCall(K)
          /\ K.allocated_qubits \cap ret_job.allocated_qubits # {}

\* C5: among the schedulable jobs of the priority of the returned job J,
\* J is the earliest submitted (job ids are handed out in submission order).
C5_EarliestAmongEqual ==
    Dispatched =>
        \A K \in QueuedJobs :
            (SchedulableAtCall(K) /\ K.priority = ret_job.priority)
                => K.id > ret_job.id

\* C6: the qubit sets of the jobs dispatched by schedule_next and not yet
\* completed or cancelled are pairwise disjoint.
C6_ResourceLaw ==
    \A a \in dispatched, b \in dispatched :
        a.id # b.id => a.allocated_qubits \cap b.allocated_qubits = {}

\* a dispatched job holds qubits, and schedule_next (below its concurrency
\* cap) has just refused a queued job that has no dependencies and needs one
\* of the held qubits
C6_Witness ==
    /\ op = "schedule_next"
    /\ ret_job = NoJob
    /\ Cardinality(scheduler.running) < scheduler.max_concurrent_jobs
    /\ \E K \in QueuedJobs, d \in dispatched :
          K.depends_on = <<>> /\ K.allocated_qubits \cap d.allocated_qubits # {}

\* C7: total_submitted == queue_length + |running| + total_completed +
\* total_failed + total_cancelled after any sequence of scheduler calls.
C7_Conservation ==
    scheduler.stats.total_submitted =
        queue_length(scheduler) + Cardinality(scheduler.running)
        + scheduler.stats.total_completed + scheduler.stats.total_failed
        + scheduler.stats.total_cancelled

\* C8: the number of jobs dispatched by schedule_next and not yet completed
\* or cancelled never exceeds max_concurrent_jobs.
C8_HardCap == Cardinality(dispatched) <= scheduler.max_concurrent_jobs

\* C9: schedule_next never returns a job while an id in its depends_on has
\* no result recorded in `completed`.
C9_DependenciesFirst ==
    Dispatched =>
        \A k \in 1..Len(ret_job.depends_on) :
            ret_job.depends_on[k] \in DOMAIN scheduler.completed

\* a job was dispatched while a job of higher priority whose qubits are free
\* stays queued behind its unfinished dependency
C9_Witness ==
    /\ Dispatched
    /\ \E K \in QueuedJobs :
          /\ K.priority > ret_job.priority
          /\ K.depends_on # <<>>
          /\ K.allocated_qubits # {}
          /\ K.allocated_qubits \subseteq scheduler.available_qubits

\* C10: after schedule_and_execute returned a result for job J, the
\* scheduler has J recorded as completed: get_job_result(J.id) is that
\* result, get_job_status(J.id) its status, and the scheduler has counted one
\* completion or failure per result the runtime handed out.
C10_ResultRecorded ==
    (op = "schedule_and_execute" /\ ret_result # NoResult) =>
        /\ get_job_result(call_job) = ret_result
        /\ get_job_status(call_job) = ret_result.status
        /\ scheduler.stats.total_completed + scheduler.stats.total_failed
               = rt_stats.total_jobs_completed + rt_stats.total_jobs_failed

\* ids of the jobs schedule_next handed out that are not yet completed or
\* cancelled
DispatchedIds == {d.id : d \in dispatched}

\* C11: when complete is called with the id of a job that schedule_next
\* dispatched, all of that job's allocated_qubits are in available_qubits
\* afterwards.
C11_QubitsReturned ==
    [][(op' = "complete" /\ call_job' \in DispatchedIds) =>
          \A d \in dispatched :
              d.id = call_job' =>
                  d.allocated_qubits \subseteq scheduler'.available_qubits]_vars

\* C12: when execute_all returns, no job is left in the queue that is
\* schedulable (dependencies completed, qubits available, concurrency cap not
\* reached), whatever the priorities and the target backends of the queued
\* jobs.
C12_Drained ==
    op = "execute_all" =>
        \/ Cardinality(scheduler.running) >= scheduler.max_concurrent_jobs
        \/ \A K \in QueuedJobs : ~can_schedule(scheduler, K)

\* C13: on a fresh runtime with the default backend registered and backends
\* that succeed, execute_all leaves no created job behind: it returns
\* Completed results only, the queue is empty and total_jobs_completed
\* equals total_jobs_submitted.
C13_EndToEnd ==
    (op = "execute_all" /\ DefaultBackend \in registry /\ dispatched = {}) =>
        /\ \A k \in 1..Len(ret_results) : ret_results[k].status = "Completed"
        /\ QueuedJobs = {}
        /\ rt_stats.total_jobs_completed = rt_stats.total_jobs_submitted

\* C14: create_job submits one job (total_jobs_submitted and the queue each
\* grow by one) and that job's target_backend is the configured
\* default_backend, whatever the metadata of the circuit.
C14_TargetsDefault ==
    [][op' = "create_job" =>
          /\ rt_stats'.total_jobs_submitted = rt_stats.total_jobs_submitted + 1
          /\ queue_length(scheduler') = queue_length(scheduler) + 1
          /\ \A K \in Range(scheduler'.queue) :
                K.id = call_job' => K.target_backend = DefaultBackend]_vars

\* ids of the jobs waiting in the queue
QueuedIds == {K.id : K \in QueuedJobs}

\* C15: cancel(job_id) returns true and adds exactly one to total_cancelled
\* when the job waits in the queue (it leaves the queue) or was dispatched
\* and is not yet completed (its qubits go back to available_qubits); for
\* any other id it returns false and leaves the scheduler as it was.
C15_CancelContract ==
    [][op' = "cancel" =>
          IF call_job' \in QueuedIds \cup DispatchedIds
          THEN /\ ret_ok'
               /\ scheduler'.stats.total_cancelled =
                      scheduler.stats.total_cancelled + 1
               /\ position_of(scheduler'.queue, call_job') = 0
               /\ \A d \in dispatched :
                      d.id = call_job' =>
                          d.allocated_qubits \subseteq scheduler'.available_qubits
          ELSE ~ret_ok' /\ scheduler' = scheduler]_vars

TerminalStatuses == {"Completed", "Failed", "Cancelled"}

C17_ErrorBecomesFailure ==
    [][(op' = "schedule_and_execute" /\ backend_ret' = <<"Err">>) =>
          /\ ret_result' # NoResult
          /\ ret_result'.status = "Failed"
          /\ ret_result'.error = "Backend unavailable: offline"
          /\ rt_stats'.total_jobs_failed = rt_stats.total_jobs_failed + 1
          /\ rt_stats'.total_jobs_completed = rt_stats.total_jobs_completed
          /\ rt_stats'.total_execution_time_ms =
                 rt_stats.total_execution_time_ms]_vars

\* the backend failed on the second job after it had completed the first
C17_Witness ==
    /\ op = "schedule_and_execute"
    /\ backend_ret = <<"Err">>
    /\ ret_result.status = "Failed"
    /\ rt_stats.total_jobs_completed = 1
    /\ rt_stats.total_execution_time_ms = MockExecutionTimeMs

\* C18: when schedule_next yields a job whose target_backend is not in the
\* registry, schedule_and_execute returns none and the job is lost: it is
\* in no scheduler collection, no result is recorded for it, no completed /
\* failed counter changes and its qubits stay out of available_qubits.
C18_UnregisteredJobLost ==
    [][LET sn == schedule_next(scheduler)
       IN  (/\ op' = "schedule_and_execute"
            /\ sn.job # NoJob
            /\ sn.job.target_backend \notin registry) =>
               /\ ret_result' = NoResult
               /\ position_of(scheduler'.queue, sn.job.id) = 0
               /\ queue_length(scheduler') = queue_length(scheduler) - 1
               /\ \A j \in scheduler'.running : j.id # sn.job.id
               /\ scheduler'.completed = scheduler.completed
               /\ rt_stats' = rt_stats
               /\ scheduler'.stats.total_completed = scheduler.stats.total_completed
               /\ scheduler'.stats.total_failed = scheduler.stats.total_failed
               /\ scheduler'.available_qubits =
                      scheduler.available_qubits \ sn.job.allocated_qubits]_vars

\* a tick has just lost a job that holds qubits: it returned none, the job
\* left the queue, and no qubit of it is available while another job waits
C18_Witness ==
    /\ op = "schedule_and_execute"
    /\ ret_result = NoResult
    /\ QueuedJobs # {}
    /\ \E d \in dispatched :
          /\ d.id = call_job
          /\ d.target_backend \notin registry
          /\ d.allocated_qubits # {}
          /\ d.allocated_qubits \cap scheduler.available_qubits = {}

\* the edge list as it was when the last add_edge was called
EdgesBeforeAddEdge ==
    IF dag_ret.err = "none" THEN SubSeq(edges, 1, Len(edges) - 1) ELSE edges

\* C19: add_edge(from, to) with both indices below num_nodes returns
\* CyclicDependency exactly when a directed path from `to` to `from` existed
\* before the call (from = to included) and succeeds otherwise; with an
\* index >= num_nodes it returns the QubitNotFound error.
C19_AddEdgeResult ==
    dag_op = "add_edge" =>
        LET from == dag_args[1]
            to == dag_args[2]
        IN  IF from >= Len(nodes) \/ to >= Len(nodes)
            THEN dag_ret.err = "QubitNotFound"
            ELSE IF from = to
                    \/ <<to, from>> \in Closure(Range(EdgesBeforeAddEdge))
            THEN dag_ret.err = "CyclicDependency"
            ELSE dag_ret.err = "none" /\ edges[Len(edges)] = <<from, to>>

\* add_edge refused an edge that would close a cycle of three nodes
C19_Witness ==
    /\ dag_op = "add_edge"
    /\ dag_ret.err = "CyclicDependency"
    /\ dag_args[1] # dag_args[2]
    /\ <<dag_args[2], dag_args[1]>> \notin EdgeSet

\* C20: when add_edge or add_node_with_deps returns an error, the node
\* list (every depends_on included), the edge list and cached_depth are as
\* they were before the call.
C20_ErrorLeavesDagUnchanged ==
    [][(dag_op' \in {"add_edge", "add_node_with_deps"}
           /\ dag_ret'.err # "none") =>
          (nodes' = nodes /\ edges' = edges /\ cached_depth' = cached_depth)]_vars

\* add_node_with_deps failed on a list that names an existing node and a
\* missing one, in a DAG that has edges and a cached depth
C20_Witness ==
    /\ dag_op = "add_node_with_deps"
    /\ dag_ret.err = "QubitNotFound"
    /\ \E j \in 1..Len(dag_args) : dag_args[j] < Len(nodes)
    /\ edges # <<>>
    /\ cached_depth # None

\* ------------------------------------------------------------------------
\* Properties of the JobQueue
\* ------------------------------------------------------------------------
\* C24: after any sequence of push / pop / remove the queue is ordered by
\* non-increasing priority, jobs of equal priority in push order (ids are
\* handed out in push order); pop returns a job of the highest priority
\* present and, among those, the earliest pushed.
C24_QueueOrdered ==
    /\ \A i, j \in 1..Len(jq_jobs) :
          i < j =>
              \/ jq_jobs[i].priority > jq_jobs[j].priority
              \/ /\ jq_jobs[i].priority = jq_jobs[j].priority
                 /\ jq_jobs[i].id < jq_jobs[j].id
    /\ (jq_op = "pop" /\ jq_ret = NoJob) => jq_jobs = <<>>
    /\ (jq_op = "pop" /\ jq_ret # NoJob) =>
          \A K \in Range(jq_jobs) :
              \/ K.priority < jq_ret.priority
              \/ K.priority = jq_ret.priority /\ K.id > jq_ret.id

\* pop returned a job that was pushed after a job of lower priority and
\* before a job of its own priority, both still queued
C24_Witness ==
    /\ jq_op = "pop"
    /\ jq_ret # NoJob
    /\ \E K \in Range(jq_jobs) : K.priority < jq_ret.priority /\ K.id < jq_ret.id
    /\ \E K \in Range(jq_jobs) : K.priority = jq_ret.priority /\ K.id > jq_ret.id

\* ------------------------------------------------------------------------
\* Properties of the LogicalQubitManager
\* ------------------------------------------------------------------------
\* C25: across any sequence of allocate, allocate_ancilla and free calls
\* (repeated frees of one id included) no id is at once on the free list and
\* recorded as Allocated, and allocate never returns an id that is live
\* (recorded as Allocated) at the moment of the call.
C25_NoLiveIdOnFreeList ==
    [][/\ \A i \in 1..Len(free_list') :
             free_list'[i] \in DOMAIN allocated' =>
                 allocated'[free_list'[i]].state # "Allocated"
       /\ qm_op' = "allocate" =>
             ~(/\ qm_ret'.id \in DOMAIN allocated
               /\ allocated[qm_ret'.id].state = "Allocated")]_vars

\* C26: free(id) returns false and changes nothing for an id the manager
\* never issued and returns true otherwise; the free list never holds the
\* same id twice, also when free is called again on a freed id.
C26_FreeListHasNoDuplicates ==
    [][/\ qm_op' = "free" =>
             IF qm_arg' \in issued
             THEN qm_ret'.ok
             ELSE /\ ~qm_ret'.ok
                  /\ UNCHANGED <<next_id, allocated, free_list>>
       /\ \A i, j \in 1..Len(free_list') :
             i # j => free_list'[i] # free_list'[j]]_vars

\* C27: allocate returns an id taken from the free list whenever the free
\* list is non-empty, leaving that record Allocated with no physical mapping
\* and minting nothing; only when the free list is empty it mints a fresh id
\* from the counter, never issued since the last reset; free(q) immediately
\* followed by allocate() returns q.
C27_AllocateReuses ==
    [][qm_op' = "allocate" =>
         /\ IF free_list # <<>>
            THEN /\ qm_ret'.id \in Range(free_list)
                 /\ Len(free_list') = Len(free_list) - 1
                 /\ next_id' = next_id
                 /\ DOMAIN allocated' = DOMAIN allocated
            ELSE /\ qm_ret'.id = next_id
                 /\ qm_ret'.id \notin issued
                 /\ next_id' = next_id + 1
                 /\ free_list' = <<>>
         /\ allocated'[qm_ret'.id].state = "Allocated"
         /\ allocated'[qm_ret'.id].physical_mapping = None
         /\ \A id \in DOMAIN allocated :
               id # qm_ret'.id => allocated'[id] = allocated[id]
         /\ (qm_op = "free" /\ qm_ret.ok) => qm_ret'.id = qm_arg]_vars

\* allocate has just handed back the id freed by the call before it, while
\* an older freed id is still waiting on the free list
C27_Witness ==
    /\ qm_op = "allocate"
    /\ free_list # <<>>
    /\ qm_ret.id \notin Range(free_list)
    /\ qm_ret.id < next_id - 1
    /\ allocated[qm_ret.id].state = "Allocated"
    /\ \E id \in Range(free_list) : allocated[id].state = "Freed"

\* C28: ancilla ids are not pooled: no id whose record has is_ancilla = TRUE
\* is on the free list, and allocate never returns the id of an ancilla
\* record.
C28_AncillaNotPooled ==
    /\ \A i \in 1..Len(free_list) :
          free_list[i] \in DOMAIN allocated =>
              ~allocated[free_list[i]].is_ancilla
    /\ qm_op = "allocate" => ~allocated[qm_ret.id].is_ancilla

\* ------------------------------------------------------------------------
\* Properties of the QubitMapping
\* ------------------------------------------------------------------------
\* C29: after any sequence of map / unmap / clear the two tables are
\* mutually inverse: logical_to_physical[L] = P exactly when
\* physical_to_logical[P] = L, so no physical id is the image of two
\* logical ids.
C29_TablesInverse ==
    /\ \A L \in DOMAIN logical_to_physical :
          get_logical(MappingState, logical_to_physical[L]) = L
    /\ \A P \in DOMAIN physical_to_logical :
          get_physical(MappingState, physical_to_logical[P]) = P

\* ------------------------------------------------------------------------
\* Properties of a job's timestamps
\* ------------------------------------------------------------------------
\* the timestamps of the job that are defined, in lifecycle order
Timestamps(job) ==
    <<job.created_at, job.submitted_at, job.started_at, job.completed_at>>

\* C30: under a non-decreasing clock and any sequence of submit,
\* start_execution, schedule_next, re-submission, cancel and set_status,
\* created_at <= submitted_at <= started_at <= completed_at whenever defined,
\* and a timestamp, once set, is not overwritten by a later transition.
C30_TimestampsOrderedAndKept ==
    [][/\ \A i, k \in 1..4 :
             (i < k /\ Timestamps(tjob')[i] # None
                    /\ Timestamps(tjob')[k] # None)
                 => Timestamps(tjob')[i] <= Timestamps(tjob')[k]
       /\ \A i \in 1..4 :
             Timestamps(tjob)[i] # None
                 => Timestamps(tjob')[i] = Timestamps(tjob)[i]]_vars

\* ------------------------------------------------------------------------
\* Properties of the depth cache and of compute_parallel_groups
\* ------------------------------------------------------------------------
\* C21: in every reachable state of a CircuitDag (add_node, add_edge,
\* add_node_with_deps, get_node_mut, depth, compute_parallel_groups, clear
\* in any order) cached_depth is absent or equals the depth recomputed from
\* scratch.
C21_CacheNeverStale ==
    cached_depth # None => cached_depth = compute_depth(nodes, edges)

\* the layer (0-based) of the node in the groups returned, None when absent
LayerOf(groups, node_id) ==
    LET hits == {g \in 1..Len(groups) : node_id \in Range(groups[g])}
    IN  IF hits = {} THEN None ELSE (CHOOSE g \in hits : TRUE) - 1

\* C22: compute_parallel_groups puts a node without predecessors in layer 0
\* and any other node in layer 1 + max(layer of its predecessors), so for
\* every edge (f, t) the layer of f is strictly less than the layer of t.
C22_LayersFollowEdges ==
    dag_op = "compute_parallel_groups" =>
        /\ \A e \in EdgeSet :
              LayerOf(dag_ret.groups, e[1]) < LayerOf(dag_ret.groups, e[2])
        /\ \A n \in NodeIds :
              LayerOf(dag_ret.groups, n) =
                  LET preds == {e[1] : e \in {x \in EdgeSet : x[2] = n}}
                  IN  IF preds = {} THEN 0
                      ELSE 1 + MaxOf({LayerOf(dag_ret.groups, q) : q \in preds}, 0)

\* how often the node id occurs in the groups
Occurrences(groups, node_id) ==
    Cardinality({<<g, i>> \in (1..Len(groups)) \X (1..MaxNodes) :
                    i <= Len(groups[g]) /\ groups[g][i] = node_id})

\* C23: the layers compute_parallel_groups returns partition the node set:
\* every node id appears in exactly one layer, exactly once, and nothing
\* else appears.
C23_LayersPartition ==
    dag_op = "compute_parallel_groups" =>
        /\ \A n \in NodeIds : Occurrences(dag_ret.groups, n) = 1
        /\ \A g \in 1..Len(dag_ret.groups) :
              /\ Len(dag_ret.groups[g]) <= MaxNodes
              /\ Range(dag_ret.groups[g]) \subseteq NodeIds

\* compute_parallel_groups has just returned the layers of a DAG of three
\* nodes with at least one edge
C23_Witness ==
    /\ dag_op = "compute_parallel_groups"
    /\ Len(nodes) = 3
    /\ Len(edges) >= 1
    /\ dag_ret.groups # <<>>

\* ------------------------------------------------------------------------
\* Properties of a backend adapter shared by threads
\* ------------------------------------------------------------------------
\* C31: under every interleaving of submit_job / get_job_status /
\* get_job_result / cancel_job on one adapter: once submit_job has returned
\* id I, get_job_status(I) does not return the not-found error; when that
\* status is terminal get_job_result(I) returns a result; no two submit_job
\* calls return the same id.
C31_ConsistentView ==
    /\ \A i \in 1..Len(ad_returned) :
          LET st == adapter_get_job_status(ad_jobs, ad_returned[i])
          IN  /\ st.err = "none"
              /\ is_terminal(st.status) =>
                    adapter_get_job_result(ad_jobs, ad_returned[i]).err = "none"
    /\ \A i, j \in 1..Len(ad_returned) :
          i # j => ad_returned[i] # ad_returned[j]
    /\ (ad_last.name = "get_job_status" /\ ad_last.job_id \in Range(ad_returned))
          => ad_last.err = "none"
    /\ (ad_last.name = "get_job_result" /\ ad_last.job_id \in Range(ad_returned))
          => ad_last.result # NoResult

\* a thread has read the result of a returned id while the other thread is
\* between its fetch_add and its insert
C31_Witness ==
    /\ ad_last.name = "get_job_result"
    /\ ad_last.job_id \in Range(ad_returned)
    /\ ad_last.result.job_id = ad_last.job_id
    /\ \E t \in Threads : ad_pc[t].pc = "insert" /\ ad_pc[t].job_id < ad_last.job_id

\* ------------------------------------------------------------------------
\* Properties of JobResult statistics
\* ------------------------------------------------------------------------
\* number of entries of the vector that are equal to 1
OnesIn(counts) == Cardinality({i \in 1..Len(counts) : counts[i] = 1})

\* C32: after any sequence of add_counts calls, for every recorded qubit q
\* the stored probability equals (number of entries equal to 1 in
\* counts[q]) / len(counts[q]), and 0 when counts[q] is empty; counts and
\* statistics have the same key set.
C32_StatisticsLaw ==
    /\ DOMAIN res_counts = DOMAIN res_statistics
    /\ \A q \in DOMAIN res_counts :
          LET p == get_probability([counts |-> res_counts,
                                    statistics |-> res_statistics], q)
          IN  /\ p[2] > 0
              /\ IF Len(res_counts[q]) = 0 THEN p[1] = 0
                 ELSE p[1] * Len(res_counts[q]) = OnesIn(res_counts[q]) * p[2]

\* one qubit holds a vector with an entry that is neither 0 nor 1 next to
\* a 1, another qubit holds an empty vector
C32_Witness ==
    /\ \E q \in DOMAIN res_counts :
          /\ 1 \in Range(res_counts[q])
          /\ \E v \in Range(res_counts[q]) : v > 1
    /\ \E q \in DOMAIN res_counts : res_counts[q] = <<>>

\* ------------------------------------------------------------------------
\* Properties of dispatch through the runtime
\* ------------------------------------------------------------------------
\* C33: when execute_all is called with jobs A and B queued, B listing A in
\* depends_on, A schedulable, both backends registered and B's qubits free
\* (so B is held back by its dependency only), execute_all returns results
\* for both, in that order, and B has left the queue: A's result was
\* recorded and made B schedulable.
C33_DependencyOrderedDispatch ==
    [][op' = "execute_all" =>
          \A A, B \in Range(scheduler.queue) :
              (/\ B.depends_on = <<A.id>>
               /\ can_schedule(scheduler, A)
               /\ Cardinality(scheduler.running) < scheduler.max_concurrent_jobs
               /\ {A.target_backend, B.target_backend} \subseteq registry
               /\ B.allocated_qubits \subseteq scheduler.available_qubits)
              => /\ Len(ret_results') >= 2
                 /\ A.id \in DOMAIN scheduler'.completed
                 /\ B.id \notin {K.id : K \in Range(scheduler'.queue)}]_vars

\* ------------------------------------------------------------------------
\* Properties of can_parallel
\* ------------------------------------------------------------------------
\* C34: can_parallel(a, b) returns true exactly when both indices are in
\* range, neither node has the other in its depends_on and the two qubit
\* footprints are disjoint; it returns false when an index is out of range,
\* and (b, a) gets the answer of (a, b).
C34_CanParallelExact ==
    /\ dag_op = "can_parallel" =>
          LET a == dag_args[1]
              b == dag_args[2]
          IN  dag_ret.ok <=>
                  /\ a < Len(nodes)
                  /\ b < Len(nodes)
                  /\ \A i \in 1..Len(nodes[a + 1].depends_on) :
                         nodes[a + 1].depends_on[i] # b
                  /\ \A i \in 1..Len(nodes[b + 1].depends_on) :
                         nodes[b + 1].depends_on[i] # a
                  /\ \A q \in node_qubits[a] : q \notin node_qubits[b]
    /\ \A a, b \in 0..Len(nodes) :
          can_parallel(nodes, node_qubits, a, b)
              = can_parallel(nodes, node_qubits, b, a)

\* can_parallel answered true for two distinct nodes of a DAG in which the
\* first argument has a dependency and the second names a node that does not
\* depend on it
C34_Witness ==
    /\ dag_op = "can_parallel"
    /\ dag_ret.ok
    /\ dag_args[1] # dag_args[2]
    /\ nodes[dag_args[1] + 1].depends_on # <<>>
    /\ node_qubits[dag_args[1]] # {}
    /\ node_qubits[dag_args[2]] # {}

\* C35: can_parallel never answers true for two nodes joined by a directed
\* path of any length, in either direction.
C35_NoParallelAlongPath ==
    (/\ dag_op = "can_parallel"
     /\ dag_ret.ok
     /\ dag_args[1] # dag_args[2])
    => /\ ~has_path(edges, dag_args[1], dag_args[2], {}).found
       /\ ~has_path(edges, dag_args[2], dag_args[1], {}).found

\* ------------------------------------------------------------------------
\* Properties of the edge list and the predecessor lists
\* ------------------------------------------------------------------------
\* C36: in a DAG built with add_node / add_edge / add_node_with_deps the
\* edge list and the depends_on lists agree: both ends of every edge (f, t)
\* are node indices and f is in nodes[t].depends_on, every entry p of
\* nodes[t].depends_on has an edge (p, t), and each node's id is its index.
C36_EdgesMatchDependsOn ==
    /\ \A i \in 1..Len(edges) :
          LET f == edges[i][1]
              t == edges[i][2]
          IN  /\ f \in 0..(Len(nodes) - 1)
              /\ t \in 0..(Len(nodes) - 1)
              /\ \E j \in 1..Len(nodes[t + 1].depends_on) :
                     nodes[t + 1].depends_on[j] = f
    /\ \A t \in 1..Len(nodes) :
          /\ nodes[t].id = t - 1
          /\ \A j \in 1..Len(nodes[t].depends_on) :
                 \E i \in 1..Len(edges) :
                     edges[i] = <<nodes[t].depends_on[j], t - 1>>

\* add_edge has just added an edge to a node that add_node_with_deps had
\* created with a dependency, so that the node has two predecessors
C36_Witness ==
    /\ dag_op = "add_edge"
    /\ dag_ret.err = "none"
    /\ Len(edges) >= 2
    /\ LET t == dag_args[2]
       IN  /\ Len(nodes[t + 1].depends_on) = 2
           /\ nodes[t + 1].depends_on[2] = dag_args[1]
           /\ edges[Len(edges)] = <<dag_args[1], t>>
           /\ \E i \in 1..(Len(edges) - 1) : edges[i][2] = t

\* ------------------------------------------------------------------------
\* Properties of CircuitDagBuilder
\* ------------------------------------------------------------------------
\* the operations added before node n that touch qubit q
EarlierOn(n, q) == {m \in 0..(n - 1) : q \in node_qubits[m]}

\* the last operation added before node n on each qubit of node n
LastOpsBefore(n) ==
    {MaxOf(EarlierOn(n, q), 0) : q \in {x \in node_qubits[n] : EarlierOn(n, x) # {}}}

\* the footprints of H(0), CNOT(0,1), Measure(0), Measure(1)
BellQubits == <<{0}, {0, 1}, {0}, {1}>>

BellBuilt ==
    /\ Len(nodes) = Len(BellQubits)
    /\ \A n \in 0..(Len(nodes) - 1) : node_qubits[n] = BellQubits[n + 1]

\* C37: in a DAG built with add_op alone every node depends directly on
\* exactly the last operation added before it on each of its qubits, each
\* listed once; any two operations that share a qubit are joined by a path
\* from the earlier to the later; and depth() of the Bell circuit is 3.
C37_BuilderDependencies ==
    /\ \A n \in 0..(Len(nodes) - 1) :
          /\ Range(nodes[n + 1].depends_on) = LastOpsBefore(n)
          /\ Len(nodes[n + 1].depends_on) = Cardinality(LastOpsBefore(n))
          /\ \A m \in 0..(n - 1) :
                 node_qubits[m] \cap node_qubits[n] # {}
                     => has_path(edges, m, n, {}).found
    /\ (BellBuilt /\ dag_op = "depth") => dag_ret.num = 3

\* an operation on qubit 0 was added after qubit 1 had been touched while
\* qubit 0 had not, so that add_op met the filler entry of last_ops
C37_Witness ==
    /\ dag_op = "add_op"
    /\ dag_args = <<usize_MAX>>
    /\ Len(nodes) >= 2
    /\ nodes[Len(nodes)].depends_on = <<>>
    /\ last_ops[1] = Len(nodes) - 1

\* ------------------------------------------------------------------------
\* Properties of the status of a job inside the scheduler
\* ------------------------------------------------------------------------
\* the place of a status on Pending -> Queued -> Ready -> Running -> final
StatusRank(status) ==
    CASE status = "Pending" -> 0
      [] status = "Queued" -> 1
      [] status = "Ready" -> 2
      [] status = "Running" -> 3
      [] OTHER -> 4

\* the status a client sees for a job: the one get_status reports, or the one
\* of the Job the call has just returned ("none" when neither knows the job)
StatusSeen(S, returned, job_id) ==
    IF get_status(S, job_id) # "none" THEN get_status(S, job_id)
    ELSE IF returned.id = job_id THEN returned.status
    ELSE "none"

\* C38: no scheduler operation moves a job back to an earlier status of
\* Pending -> Queued -> Ready -> Running -> {Completed, Failed, Cancelled},
\* and get_status never reports Running for a job that is in the queue.
C38_StatusOnlyForward ==
    [][\A job_id \in 1..MaxJobs :
          LET before == StatusSeen(scheduler, ret_job, job_id)
              after == StatusSeen(scheduler', ret_job', job_id)
          IN  /\ (before # "none" /\ after # "none")
                    => StatusRank(before) <= StatusRank(after)
              /\ job_id \in {j.id : j \in Range(scheduler'.queue)}
                    => get_status(scheduler', job_id) # "Running"]_vars

\* ------------------------------------------------------------------------
\* Properties of the results the runtime returns
\* ------------------------------------------------------------------------
\* C39: a JobResult returned by schedule_and_execute carries the id of the
\* scheduler job the tick took, and every JobResult returned by execute_all
\* carries the id of a job that was in the queue when execute_all was
\* called, whether the execution succeeded or failed.
C39_ResultCarriesJobId ==
    [][/\ (op' = "schedule_and_execute" /\ ret_result' # NoResult)
            => ret_result'.job_id = call_job'
       /\ op' = "execute_all"
            => \A i \in 1..Len(ret_results') :
                   ret_results'[i].job_id
                       \in {j.id : j \in Range(scheduler.queue)}]_vars

\* C40: execute_all ends after at most (jobs in the queue + 1) calls of
\* schedule_and_execute: every call but the last yields a result, every
\* result stands for one job taken out of the queue, and no job is in the
\* queue afterwards that was not there before.
C40_ExecuteAllBounded ==
    [][op' = "execute_all" =>
          /\ ea_ticks' = Len(ret_results') + 1
          /\ ea_ticks' <= Len(scheduler.queue) + 1
          /\ Len(scheduler'.queue) + Len(ret_results') <= Len(scheduler.queue)
          /\ \A i \in 1..Len(scheduler'.queue) :
                 \E j \in 1..Len(scheduler.queue) :
                     scheduler'.queue[i].id = scheduler.queue[j].id]_vars

\* execute_all has run every job of a queue of MaxJobs jobs and stopped at
\* the call that found the queue empty
C40_Witness ==
    /\ op = "execute_all"
    /\ Len(ret_results) = MaxJobs
    /\ ea_ticks = MaxJobs + 1
    /\ scheduler.queue = <<>>
    /\ \E i \in 1..Len(backend_ret) : backend_ret[i] = "Err"

====
